---------------------------- MODULE Spec2Model ----------------------------
(***************************************************************************)
(* Model of the kubernetes-version-update-action: the text-preserving YAML *)
(* mutation engine (file-updater.ts), the version functions and the body   *)
(* of the pull request (utils.ts), and the orchestration in main.ts.       *)
(*                                                                         *)
(* Text is modelled character by character: a string is a sequence of      *)
(* one-character strings, and the content of a file is such a sequence.    *)
(* Regular expressions are modelled by a backtracking matcher that follows *)
(* the ECMAScript matching order (leftmost start, greedy quantifiers,      *)
(* backtracking from the right), so that what a pattern captures is        *)
(* computed and not assumed.                                               *)
(***************************************************************************)
EXTENDS Integers, Sequences, FiniteSets, TLC

(***************************************************************************)
(* Bounds of the model.                                                    *)
(***************************************************************************)
\* number of file-updater calls in one behaviour
MaxCalls == 2

(***************************************************************************)
(* Characters and strings.                                                 *)
(***************************************************************************)
NL == "\n"
SP == " "
DQ == "\""
SQ == "'"
WS == {SP, NL}
Digits == {"0", "1", "2", "3", "4", "5", "6", "7", "8", "9"}

Max(S) == CHOOSE x \in S : \A y \in S : y <= x
Min(S) == CHOOSE x \in S : \A y \in S : x <= y

\* s.substring(a-1, b): the characters a..b of s (1-based, inclusive)
Sub(s, a, b) == IF a > b THEN <<>> ELSE SubSeq(s, a, b)

\* the elements of a sequence at the positions of S, in the order of the
\* sequence
Pick(seq, S) ==
    [k \in 1..Cardinality(S) |->
        seq[CHOOSE i \in S : Cardinality({j \in S : j < i}) = k - 1]]

\* s.includes(c) for a single character c
Includes(s, c) == \E i \in 1..Len(s) : s[i] = c

\* index of the first c in s, 0 when there is none
IndexOf(s, c) == IF Includes(s, c) THEN Min({i \in 1..Len(s) : s[i] = c}) ELSE 0

\* s.startsWith(p)
StartsWith(s, p) == Len(p) <= Len(s) /\ Sub(s, 1, Len(p)) = p

\* s.split(c): the pieces of s between the occurrences of the character c
RECURSIVE Split(_, _)
Split(s, c) ==
    IF ~Includes(s, c) THEN <<s>>
    ELSE LET i == IndexOf(s, c)
         IN  <<Sub(s, 1, i - 1)>> \o Split(Sub(s, i + 1, Len(s)), c)

\* parts.join(c)
RECURSIVE Join(_, _)
Join(parts, c) ==
    IF Len(parts) = 0 THEN <<>>
    ELSE IF Len(parts) = 1 THEN parts[1]
    ELSE parts[1] \o <<c>> \o Join(Tail(parts), c)

\* s.trim() over the white space of the model
RECURSIVE TrimLeft(_)
TrimLeft(s) == IF Len(s) > 0 /\ s[1] \in WS THEN TrimLeft(Tail(s)) ELSE s
RECURSIVE TrimRight(_)
TrimRight(s) ==
    IF Len(s) > 0 /\ s[Len(s)] \in WS THEN TrimRight(Sub(s, 1, Len(s) - 1)) ELSE s
Trim(s) == TrimLeft(TrimRight(s))

(***************************************************************************)
(* ECMAScript regular expressions.  A pattern is a sequence of elements:   *)
(*   Cls(s, q)   a character of the set s, quantified by q                 *)
(*   NotCls(s,q) a character outside s (". " is NotCls({NL}))              *)
(*   Bol, Eol    ^ and $ under the m flag                                  *)
(*   End         $ without the m flag                                      *)
(*   Open(g), Close(g)  the parentheses of capture group g                 *)
(*   Opt(body)   (?:body)?                                                 *)
(* q is "1", "*", "+" or "?"; all quantifiers are greedy.                  *)
(***************************************************************************)
Cls(s, q) == [t |-> "cls", neg |-> FALSE, s |-> s, q |-> q, g |-> 0, body |-> <<>>]
NotCls(s, q) == [t |-> "cls", neg |-> TRUE, s |-> s, q |-> q, g |-> 0, body |-> <<>>]
Bol == [t |-> "bol", neg |-> FALSE, s |-> {}, q |-> "1", g |-> 0, body |-> <<>>]
Eol == [t |-> "eol", neg |-> FALSE, s |-> {}, q |-> "1", g |-> 0, body |-> <<>>]
End == [t |-> "end", neg |-> FALSE, s |-> {}, q |-> "1", g |-> 0, body |-> <<>>]
Open(g) == [t |-> "open", neg |-> FALSE, s |-> {}, q |-> "1", g |-> g, body |-> <<>>]
Close(g) == [t |-> "close", neg |-> FALSE, s |-> {}, q |-> "1", g |-> g, body |-> <<>>]
Opt(body) == [t |-> "opt", neg |-> FALSE, s |-> {}, q |-> "?", g |-> 0, body |-> body]

\* a literal string: each character matches itself (an escaped literal)
Lit(str) == [i \in 1..Len(str) |-> Cls({str[i]}, "1")]

\* the largest number of capture groups of the patterns of the program
MaxGroups == 3

NoCaps == [g \in 1..MaxGroups |-> [s |-> 0, e |-> 0]]
NoMatch == [ok |-> FALSE, start |-> 0, end |-> 0, caps |-> NoCaps]

InCls(e, c) == IF e.neg THEN c \notin e.s ELSE c \in e.s

\* the number of consecutive characters of class e from position pos
RunLen(e, text, pos) ==
    Max({k \in 0..(Len(text) - pos + 1) :
            \A j \in 0..(k - 1) : InCls(e, text[pos + j])})

\* MatchAt: match the pattern pat at position pos; end is the position
\* after the match.  TryCount: the backtracking of a greedy quantifier,
\* from k repetitions down to kmin.
RECURSIVE MatchAt(_, _, _, _)
RECURSIVE TryCount(_, _, _, _, _, _)
TryCount(rest, text, pos, caps, k, kmin) ==
    IF k < kmin THEN NoMatch
    ELSE LET r == MatchAt(rest, text, pos + k, caps)
         IN  IF r.ok THEN r ELSE TryCount(rest, text, pos, caps, k - 1, kmin)
MatchAt(pat, text, pos, caps) ==
    IF Len(pat) = 0 THEN [ok |-> TRUE, start |-> 0, end |-> pos, caps |-> caps]
    ELSE LET e == Head(pat)
             rest == Tail(pat)
         IN  CASE e.t = "bol" ->
                    IF pos = 1 \/ text[pos - 1] = NL
                    THEN MatchAt(rest, text, pos, caps) ELSE NoMatch
               [] e.t = "eol" ->
                    IF pos = Len(text) + 1 \/ text[pos] = NL
                    THEN MatchAt(rest, text, pos, caps) ELSE NoMatch
               [] e.t = "end" ->
                    IF pos = Len(text) + 1
                    THEN MatchAt(rest, text, pos, caps) ELSE NoMatch
               [] e.t = "open" ->
                    MatchAt(rest, text, pos, [caps EXCEPT ![e.g].s = pos])
               [] e.t = "close" ->
                    MatchAt(rest, text, pos, [caps EXCEPT ![e.g].e = pos])
               [] e.t = "opt" ->
                    LET r == MatchAt(e.body \o rest, text, pos, caps)
                    IN  IF r.ok THEN r ELSE MatchAt(rest, text, pos, caps)
               [] e.t = "cls" ->
                    LET n == RunLen(e, text, pos)
                    IN  CASE e.q = "1" -> IF n >= 1
                                          THEN MatchAt(rest, text, pos + 1, caps)
                                          ELSE NoMatch
                          [] e.q = "?" -> TryCount(rest, text, pos, caps,
                                                   IF n >= 1 THEN 1 ELSE 0, 0)
                          [] e.q = "*" -> TryCount(rest, text, pos, caps, n, 0)
                          [] e.q = "+" -> TryCount(rest, text, pos, caps, n, 1)

\* RegExp.prototype.exec without the g flag: the match at the leftmost
\* position that has one
RECURSIVE ExecFrom(_, _, _)
ExecFrom(pat, text, pos) ==
    IF pos > Len(text) + 1 THEN NoMatch
    ELSE LET r == MatchAt(pat, text, pos, NoCaps)
         IN  IF r.ok THEN [r EXCEPT !.start = pos] ELSE ExecFrom(pat, text, pos + 1)
Exec(pat, text) == ExecFrom(pat, text, 1)

\* regex.test(text)
Test(pat, text) == Exec(pat, text).ok

\* the text of capture group g of a match m
Group(text, m, g) == Sub(text, m.caps[g].s, m.caps[g].e - 1)

\* the number of capture groups of a pattern
RECURSIVE NGroups(_)
NGroups(pat) ==
    IF Len(pat) = 0 THEN 0
    ELSE (IF Head(pat).t = "open" THEN 1 ELSE 0)
         + (IF Head(pat).t = "opt" THEN NGroups(Head(pat).body) ELSE 0)
         + NGroups(Tail(pat))

\* GetSubstitution: the expansion of a replacement template.  $$ is a
\* dollar sign, $& the match, $n capture group n when the pattern has at
\* least n groups; any other $ stays as written.
RECURSIVE Expand(_, _, _, _)
Expand(tpl, text, m, ng) ==
    IF Len(tpl) = 0 THEN <<>>
    ELSE IF tpl[1] = "$" /\ Len(tpl) >= 2
    THEN LET c == tpl[2]
             after == Sub(tpl, 3, Len(tpl))
             d == CHOOSE n \in 0..9 : ToString(n) = c
         IN  IF c = "$" THEN <<"$">> \o Expand(after, text, m, ng)
             ELSE IF c = "&"
             THEN Sub(text, m.start, m.end - 1) \o Expand(after, text, m, ng)
             ELSE IF c \in Digits /\ d >= 1 /\ d <= ng
             THEN Group(text, m, d) \o Expand(after, text, m, ng)
             ELSE <<"$">> \o Expand(Tail(tpl), text, m, ng)
    ELSE <<tpl[1]>> \o Expand(Tail(tpl), text, m, ng)

\* text.replace(regex, template) without the g flag
Replace(pat, text, tpl) ==
    LET m == Exec(pat, text)
    IN  IF ~m.ok THEN text
        ELSE Sub(text, 1, m.start - 1)
             \o Expand(tpl, text, m, NGroups(pat))
             \o Sub(text, m.end, Len(text))

(***************************************************************************)
(* js-yaml: yaml.load(content), for block-style documents: mappings and    *)
(* sequences nested by indentation, plain and quoted scalars on the line   *)
(* of their key, comments and blank lines.  A document outside this style  *)
(* is not parsed by the model (YamlUnderstood).                            *)
(***************************************************************************)
\* the result of getYamlValue: a string or null
Null == [null |-> TRUE, s |-> <<>>]
Str(s) == [null |-> FALSE, s |-> s]

LeadingSpaces(l) == RunLen(Cls({SP}, "*"), l, 1)

\* one line of a document: its indentation, whether it opens a sequence
\* item ("- "), the column of its key, the key and the text after "key:"
IsBlankBody(body) == Len(body) = 0 \/ body[1] = "#"
IsDashBody(body) ==
    Len(body) >= 1 /\ body[1] = "-" /\ (Len(body) = 1 \/ body[2] = SP)
\* the positions of the ":" that end a key
KeyColons(inner) ==
    {i \in 1..Len(inner) : inner[i] = ":" /\ (i = Len(inner) \/ inner[i + 1] = SP)}
FirstKeyColon(inner) == IF KeyColons(inner) = {} THEN 0 ELSE Min(KeyColons(inner))
LineRecord(ind, blank, dash, gap, inner, c) ==
    [kind |-> IF blank THEN "blank" ELSE IF c > 0 THEN "entry" ELSE "stray",
     ind |-> ind,
     dash |-> dash /\ ~blank,
     keyCol |-> ind + (IF dash THEN 1 + gap ELSE 0),
     key |-> IF c > 0 THEN Sub(inner, 1, c - 1) ELSE <<>>,
     val |-> IF c > 0 THEN Sub(inner, c + 1, Len(inner)) ELSE <<>>]
\* inner: the text of the line after its indentation and its "- "
LineOfInner(ind, blank, dash, gap, inner) ==
    LineRecord(ind, blank, dash, gap, inner,
               IF ~blank /\ FirstKeyColon(inner) > 1 /\ inner[1] \notin {DQ, SQ, "#"}
               THEN FirstKeyColon(inner) ELSE 0)
LineAfterDash(ind, blank, dash, afterDash, gap) ==
    LineOfInner(ind, blank, dash, gap, Sub(afterDash, gap + 1, Len(afterDash)))
LineOfBody(ind, body, dash) ==
    IF dash
    THEN LineAfterDash(ind, IsBlankBody(body), TRUE, Tail(body),
                       LeadingSpaces(Tail(body)))
    ELSE LineAfterDash(ind, IsBlankBody(body), FALSE, body, 0)
LineAtIndent(l, ind) ==
    LineOfBody(ind, Sub(l, ind + 1, Len(l)), IsDashBody(Sub(l, ind + 1, Len(l))))
LineInfo(l) == LineAtIndent(l, LeadingSpaces(l))

DocLines(text) == Split(text, NL)
DocInfo(text) == [n \in 1..Len(DocLines(text)) |-> LineInfo(DocLines(text)[n])]

\* String(Number(s)) for a decimal number s written as digits, or digits
\* with one dot: leading zeros of the integer part and trailing zeros of
\* the fraction are not kept ("1.10" is the number 1.1)
RECURSIVE StripLeadingZeros(_)
StripLeadingZeros(s) ==
    IF Len(s) > 1 /\ s[1] = "0" THEN StripLeadingZeros(Tail(s)) ELSE s
RECURSIVE StripTrailingZeros(_)
StripTrailingZeros(s) ==
    IF Len(s) > 0 /\ s[Len(s)] = "0"
    THEN StripTrailingZeros(Sub(s, 1, Len(s) - 1)) ELSE s
AllDigits(s) == Len(s) > 0 /\ \A i \in 1..Len(s) : s[i] \in Digits
IsYamlInt(s) == AllDigits(s)
IsYamlFloat(s) ==
    /\ Len(s) >= 2
    /\ Cardinality({i \in 1..Len(s) : s[i] = "."}) = 1
    /\ \A i \in 1..Len(s) : s[i] \in Digits \cup {"."}
NumberToString(s) ==
    IF IsYamlInt(s) THEN StripLeadingZeros(s)
    ELSE LET d == IndexOf(s, ".")
             int == IF d = 1 THEN <<"0">> ELSE StripLeadingZeros(Sub(s, 1, d - 1))
             frac == StripTrailingZeros(Sub(s, d + 1, Len(s)))
         IN  IF Len(frac) = 0 THEN int ELSE int \o <<".">> \o frac

\* parseInt(s, 10) of a string of digits
DigitVal(c) == CHOOSE n \in 0..9 : ToString(n) = c
RECURSIVE ParseInt(_)
ParseInt(s) ==
    IF Len(s) = 0 THEN 0
    ELSE 10 * ParseInt(Sub(s, 1, Len(s) - 1)) + DigitVal(s[Len(s)])

\* the end of a plain scalar: a "#" after white space opens a comment
PlainEnd(v) ==
    LET hs == {i \in 2..Len(v) : v[i] = "#" /\ v[i - 1] = SP}
    IN  IF hs = {} THEN Len(v) ELSE Min(hs) - 1

\* the scalar written after "key:" on the line of the key.
\* kind: "null" (nothing, or only a comment), "str", or "throw"
InlineScalar(val) ==
    LET v == TrimLeft(val)
    IN  IF Len(v) = 0 \/ v[1] = "#" THEN [kind |-> "null", s |-> <<>>]
        ELSE IF v[1] \in {DQ, SQ}
        THEN LET q == v[1]
                 closes == {i \in 2..Len(v) : v[i] = q}
                 j == Min(closes)
                 after == Sub(v, j + 1, Len(v))
             IN  IF closes = {} THEN [kind |-> "throw", s |-> <<>>]
                 ELSE IF Len(after) = 0 \/ Len(TrimLeft(after)) = 0
                         \/ (after[1] = SP /\ TrimLeft(after)[1] = "#")
                 THEN [kind |-> "str", s |-> Sub(v, 2, j - 1)]
                 ELSE [kind |-> "throw", s |-> <<>>]
        ELSE LET p == TrimRight(Sub(v, 1, PlainEnd(v)))
                 nested == \E i \in 1..Len(p) :
                              p[i] = ":" /\ (i = Len(p) \/ p[i + 1] = SP)
             IN  IF nested THEN [kind |-> "throw", s |-> <<>>]
                 ELSE IF IsYamlInt(p) \/ IsYamlFloat(p)
                 THEN [kind |-> "str", s |-> NumberToString(p)]
                 ELSE [kind |-> "str", s |-> p]

\* two entries of one mapping: same key column, and no line between them
\* (or the second itself) starts left of that column
SameMapping(info, a, b) ==
    /\ a < b
    /\ info[a].kind = "entry" /\ info[b].kind = "entry"
    /\ info[a].keyCol = info[b].keyCol
    /\ \A m \in (a + 1)..b : info[m].kind = "blank" \/ info[m].ind >= info[a].keyCol

\* yaml.load throws a YAMLException: a line that is no mapping entry
\* among entries, a duplicated mapping key, or a malformed scalar
LinesThrow(info) ==
    \/ /\ \E n \in 1..Len(info) : info[n].kind = "stray"
       /\ \E n \in 1..Len(info) : info[n].kind = "entry"
    \/ \E a, b \in 1..Len(info) : SameMapping(info, a, b) /\ info[a].key = info[b].key
    \/ \E n \in 1..Len(info) : info[n].kind = "entry"
                                /\ InlineScalar(info[n].val).kind = "throw"
YamlThrows(text) == LinesThrow(DocInfo(text))

\* The documents the model of yaml.load is written for: every entry has a
\* key of the model at column 0 or 2, a sequence item is "- " at column 0
\* under a key without value, an entry at column 2 follows its parent or a
\* sibling, and a line that is no entry is not indented more than the entry
\* before it (among entries such a line makes yaml.load throw).
IndicatorChars == {"-", "[", "]", "{", "}", "&", "*", "!", "|", ">", "%", "@", ","}
PrevLine(info, n) == Max({m \in 1..(n - 1) : info[m].kind # "blank"})
YamlUnderstood(text, keys) ==
    LET info == DocInfo(text)
        N == Len(info)
        entries == {n \in 1..N : info[n].kind = "entry"}
        strays == {n \in 1..N : info[n].kind = "stray"}
        nonblank == entries \cup strays
        first == Min(entries)
    IN  \/ entries = {}
        \/ /\ info[first].keyCol = 0
           /\ \A n \in entries :
                 /\ info[n].key \in keys
                 /\ info[n].keyCol \in {0, 2}
                 /\ info[n].dash => info[n].ind = 0 /\ info[n].keyCol = 2
                 /\ LET v == TrimLeft(info[n].val)
                    IN  Len(v) > 0 => v[1] \notin IndicatorChars
                 /\ (info[n].keyCol = 2 /\ n # first) =>
                       LET p == PrevLine(info, n)
                       IN  /\ p \in entries
                           /\ \/ info[p].keyCol = 2 /\ ~info[n].dash
                              \/ /\ info[p].keyCol = 0
                                 /\ InlineScalar(info[p].val).kind = "null"
           /\ \A n \in strays :
                 IF n < first THEN info[n].ind = 0
                 ELSE info[n].ind <= info[PrevLine(info, n)].keyCol

\* The nodes of the parsed document, each a range of lines:
\*   map: the entries at key column col in lo..hi; seq: the items whose
\*   "- " is at column col in lo..hi; str, null and undef are leaves.
\*   ln is the line of the mapping entry the node is the value of.
Leaf(kind, s, ln) == [k |-> kind, s |-> s, lo |-> 0, hi |-> 0, col |-> 0, ln |-> ln]
NodeOfBlock(info, lo, hi, ln) ==
    LET ns == {n \in lo..hi : info[n].kind # "blank"}
        f == Min(ns)
    IN  IF ns = {} THEN Leaf("null", <<>>, ln)
        ELSE IF info[f].kind = "stray" THEN Leaf("str", <<>>, ln)
        ELSE IF info[f].dash
        THEN [k |-> "seq", s |-> <<>>, lo |-> f, hi |-> hi, col |-> info[f].ind,
              ln |-> ln]
        ELSE [k |-> "map", s |-> <<>>, lo |-> f, hi |-> hi, col |-> info[f].keyCol,
              ln |-> ln]

MapEntries(info, node) ==
    {n \in node.lo..node.hi :
        /\ info[n].kind = "entry"
        /\ info[n].keyCol = node.col
        /\ (info[n].dash => n = node.lo)}

ItemStarts(info, node) ==
    {n \in node.lo..node.hi : info[n].dash /\ info[n].ind = node.col}

\* the end of the range that starts at n, among the starts of its siblings
RangeEnd(starts, n, hi) ==
    LET later == {m \in starts : m > n}
    IN  IF later = {} THEN hi ELSE Min(later) - 1

\* o[k] of the reduce step of getYamlValue; undef when o has no property k
Property(info, node, k) ==
    IF node.k = "map"
    THEN LET es == MapEntries(info, node)
             hit == {n \in es : info[n].key = k}
             n == Min(hit)
             sc == InlineScalar(info[n].val)
         IN  IF hit = {} THEN Leaf("undef", <<>>, 0)
             ELSE IF sc.kind = "str" THEN Leaf("str", sc.s, n)
             ELSE NodeOfBlock(info, n + 1, RangeEnd(es, n, node.hi), n)
    ELSE IF node.k = "seq" /\ AllDigits(k)
    THEN LET starts == ItemStarts(info, node)
             idx == ParseInt(k)
             nth == {n \in starts : Cardinality({m \in starts : m < n}) = idx}
             n == CHOOSE x \in nth : TRUE
         IN  IF nth = {} THEN Leaf("undef", <<>>, 0)
             ELSE [k |-> "map", s |-> <<>>, lo |-> n,
                   hi |-> RangeEnd(starts, n, node.hi), col |-> info[n].keyCol,
                   ln |-> n]
    ELSE Leaf("undef", <<>>, 0)

RECURSIVE Reduce(_, _, _)
Reduce(info, node, segs) ==
    IF Len(segs) = 0 THEN node
    ELSE Reduce(info, Property(info, node, Head(segs)), Tail(segs))

ObjectObject ==
    <<"[", "o", "b", "j", "e", "c", "t", " ", "O", "b", "j", "e", "c", "t", "]">>


\* the node a dotted path leads to in the parsed document:
\* path.split('.').reduce(..., data)
ResolveIn(info, path) == Reduce(info, NodeOfBlock(info, 1, Len(info), 0), path)
Resolve(text, path) == ResolveIn(DocInfo(text), path)

(***************************************************************************)
(* file-updater.ts                                                         *)
(***************************************************************************)
\* the leaf key of a dotted path: path.split('.').pop()
TargetKey(path) == path[Len(path)]

\* ^\s*KEY:\s*["']?([^#\n"']+)   (flag m)
CatchRegex(targetKey) ==
    <<Bol, Cls(WS, "*")>> \o Lit(targetKey)
    \o <<Cls({":"}, "1"), Cls(WS, "*"), Cls({DQ, SQ}, "?"),
         Open(1), NotCls({"#", NL, DQ, SQ}, "+"), Close(1)>>

\* getYamlValue(file, path) of an existing file with the given content
\* value !== undefined ? String(value) : null
StringOrNull(value) ==
    CASE value.k = "undef" -> Null
      [] value.k = "null" -> Str(<<"n", "u", "l", "l">>)
      [] value.k = "str" -> Str(value.s)
      [] OTHER -> Str(ObjectObject)
\* match ? match[1].trim() : null
TrimmedMatch(content, match) ==
    IF match.ok THEN Str(Trim(Group(content, match, 1))) ELSE Null
getYamlValue(content, path) ==
    IF YamlThrows(content)
    THEN TrimmedMatch(content, Exec(CatchRegex(TargetKey(path)), content))
    ELSE StringOrNull(Resolve(content, path))

\* ^(\s*(?:-\s*)?KEY:\s*)   the common head of the patterns of setYamlValue
KeyHead(targetKey) ==
    <<Bol, Open(1), Cls(WS, "*"), Opt(<<Cls({"-"}, "1"), Cls(WS, "*")>>)>>
    \o Lit(targetKey) \o <<Cls({":"}, "1"), Cls(WS, "*"), Close(1)>>

\* searchVal.replace(/[.*+?^${}()|[\]\\]/g, '\\$&') inside new RegExp(...):
\* the escaped old value matches itself, character by character
EscapedOldValue(searchVal) == Lit(searchVal)

\* file-updater.ts:    ^(\s*(?:-\s*)?KEY:\s*)OLD(.*)$      two groups
ExactRegex(targetKey, searchVal) ==
    KeyHead(targetKey) \o EscapedOldValue(searchVal)
    \o <<Open(2), NotCls({NL}, "*"), Close(2), Eol>>

\* the later revision: ^(\s*(?:-\s*)?KEY:\s*)(OLD)(.*)$    three groups
ExactRegexGrouped(targetKey, searchVal) ==
    KeyHead(targetKey) \o <<Open(2)>> \o EscapedOldValue(searchVal)
    \o <<Close(2), Open(3), NotCls({NL}, "*"), Close(3), Eol>>

\* ^(\s*(?:-\s*)?KEY:\s*)([^#\n]+)(.*)$
FallbackRegex(targetKey) ==
    KeyHead(targetKey)
    \o <<Open(2), NotCls({"#", NL}, "+"), Close(2),
         Open(3), NotCls({NL}, "*"), Close(3), Eol>>

\* replaceVal: in kubernetes mode a value with a colon keeps what is
\* before its first colon:  const [repo] = oldValue.split(':')
ReplaceVal(oldValue, newValue, type) ==
    IF type = "kubernetes" /\ ~oldValue.null /\ Len(oldValue.s) > 0
       /\ Includes(oldValue.s, ":")
    THEN Split(oldValue.s, ":")[1] \o <<":">> \o newValue
    ELSE newValue

\* `$1${replaceVal}$3`
Template(replaceVal) == <<"$", "1">> \o replaceVal \o <<"$", "3">>

\* The two revisions of setYamlValue in the repository differ in the exact
\* pattern only.
Revisions == {"file-updater.ts", "part_002"}
RevExactRegex(rev, targetKey, searchVal) ==
    IF rev = "part_002" THEN ExactRegexGrouped(targetKey, searchVal)
    ELSE ExactRegex(targetKey, searchVal)

\* searchVal = oldValue || ''
SearchVal(oldValue) == IF oldValue.null THEN <<>> ELSE oldValue.s

\* lines 59-69 without the check of the fallback pattern: no error is
\* thrown and the file is written whether or not the key was found
WriteReplacedNoThrow(content, regex, fallbackRegex, template) ==
    IF ~Test(regex, content)
    THEN [outcome |-> "fallback", wrote |-> TRUE,
          content |-> Replace(fallbackRegex, content, template)]
    ELSE [outcome |-> "exact", wrote |-> TRUE,
          content |-> Replace(regex, content, template)]

\* lines 59-72: the exact pattern, else the fallback pattern, else the
\* error; the file is written with the first match replaced
WriteReplaced(content, regex, fallbackRegex, template) ==
    IF ~Test(regex, content)
    THEN IF ~Test(fallbackRegex, content)
         THEN [outcome |-> "Could not find key", wrote |-> FALSE, content |-> content]
         ELSE [outcome |-> "fallback", wrote |-> TRUE,
               content |-> Replace(fallbackRegex, content, template)]
    ELSE [outcome |-> "exact", wrote |-> TRUE,
          content |-> Replace(regex, content, template)]

\* lines 43-72, with the old value read at line 35
ReplaceOldValue(rev, content, targetKey, oldValue, newValue, type) ==
    WriteReplaced(content, RevExactRegex(rev, targetKey, SearchVal(oldValue)),
                  FallbackRegex(targetKey),
                  Template(ReplaceVal(oldValue, newValue, type)))

\* setYamlValue without the check of the fallback pattern
setYamlValueNoThrow(rev, content, path, newValue, type, dryRun) ==
    IF dryRun
    THEN [outcome |-> "dry", wrote |-> FALSE, content |-> content]
    ELSE WriteReplacedNoThrow(content,
            RevExactRegex(rev, TargetKey(path), SearchVal(getYamlValue(content, path))),
            FallbackRegex(TargetKey(path)),
            Template(ReplaceVal(getYamlValue(content, path), newValue, type)))

\* setYamlValue without the early return of a dry run
setYamlValueIgnoresDryRun(rev, content, path, newValue, type, dryRun) ==
    ReplaceOldValue(rev, content, TargetKey(path), getYamlValue(content, path),
                    newValue, type)

\* setYamlValue(file, path, newValue, type, dryRun) on a file with the given
\* content: what is thrown, whether the file is written, and its content
\* after the call
setYamlValue(rev, content, path, newValue, type, dryRun) ==
    IF dryRun
    THEN [outcome |-> "dry", wrote |-> FALSE, content |-> content]
    ELSE ReplaceOldValue(rev, content, TargetKey(path), getYamlValue(content, path),
                         newValue, type)

\* ^\s*repo:\s+['"]?REPO['"]?\s*$   matched against one line
RepoLineRegex(repo) ==
    <<Bol, Cls(WS, "*")>> \o Lit(<<"r", "e", "p", "o">>)
    \o <<Cls({":"}, "1"), Cls(WS, "+"), Cls({SQ, DQ}, "?")>>
    \o Lit(repo) \o <<Cls({SQ, DQ}, "?"), Cls(WS, "*"), Eol>>

\* ^(\s*)-\s+
ItemStartRegex == <<Bol, Open(1), Cls(WS, "*"), Close(1), Cls({"-"}, "1"), Cls(WS, "+")>>

\* ^INDENT-\s+
SameIndentItemRegex(indent) == <<Bol>> \o Lit(indent) \o <<Cls({"-"}, "1"), Cls(WS, "+")>>

\* ^(\s*)\S
LineIndentRegex == <<Bol, Open(1), Cls(WS, "*"), Close(1), NotCls(WS, "1")>>

\* step 1: the first line that holds `repo: REPO` (0: none)
RepoLineIndex(lines, repo) ==
    LET hits == {i \in 1..Len(lines) : Test(RepoLineRegex(repo), lines[i])}
    IN  IF hits = {} THEN 0 ELSE Min(hits)

\* step 2: the nearest line at or above the repo line that opens a list item
BlockStart(lines, repoLine) ==
    LET hits == {i \in 1..repoLine : Test(ItemStartRegex, lines[i])}
    IN  IF hits = {} THEN 0 ELSE Max(hits)

\* the indentation of the list item opened on a line
ItemIndent(l) == Group(l, Exec(ItemStartRegex, l), 1)

\* step 3: the first line below start that opens an item at the same
\* indentation, or is less indented and not empty; past the end when none
BlockEnd(lines, start) ==
    LET indent == ItemIndent(lines[start])
        ends == {i \in (start + 1)..Len(lines) :
                    \/ Test(SameIndentItemRegex(indent), lines[i])
                    \/ LET m == Exec(LineIndentRegex, lines[i])
                       IN  m.ok /\ Len(Group(lines[i], m, 1)) < Len(indent)}
    IN  IF ends = {} THEN Len(lines) + 1 ELSE Min(ends)

\* text.replace(/\n{3,}/g, '\n\n')
RECURSIVE CollapseNewlines(_)
CollapseNewlines(text) ==
    LET runs == {i \in 1..Len(text) : RunLen(Cls({NL}, "*"), text, i) >= 3}
    IN  IF runs = {} THEN text
        ELSE Sub(text, 1, Min(runs) - 1) \o <<NL, NL>>
             \o CollapseNewlines(Sub(text, Min(runs) + RunLen(Cls({NL}, "*"), text, Min(runs)),
                                     Len(text)))

\* lines.splice(start, end - start) on 1-based lines start..end-1
Splice(lines, start, end) ==
    Sub(lines, 1, start - 1) \o Sub(lines, end, Len(lines))

\* removeApplicationFromConfig with a write of the document on the
\* not-found path instead of the return of line 108
removeApplicationFromConfigWritesWhenNotFound(exists, content, repo, dryRun) ==
    LET lines == Split(content, NL)
        repoLineIndex == RepoLineIndex(lines, repo)
        startIndex == BlockStart(lines, repoLineIndex)
        Same(o) == [outcome |-> o, wrote |-> FALSE, content |-> content]
    IN  IF dryRun THEN Same("dry")
        ELSE IF ~exists THEN Same("Config file not found")
        ELSE IF repoLineIndex = 0
        THEN [outcome |-> "no application", wrote |-> TRUE, content |-> content]
        ELSE IF startIndex = 0 THEN Same("no start of block")
        ELSE [outcome |-> "removed", wrote |-> TRUE,
              content |-> CollapseNewlines(Join(Splice(lines, startIndex,
                                                       BlockEnd(lines, startIndex)), NL))]

\* removeApplicationFromConfig(configFile, repo, dryRun) of a config file
\* with the given content
removeApplicationFromConfig(exists, content, repo, dryRun) ==
    LET lines == Split(content, NL)
        repoLineIndex == RepoLineIndex(lines, repo)
        startIndex == BlockStart(lines, repoLineIndex)
        endIndex == BlockEnd(lines, startIndex)
        newContent == CollapseNewlines(Join(Splice(lines, startIndex, endIndex), NL))
        Same(o) == [outcome |-> o, wrote |-> FALSE, content |-> content]
    IN  IF dryRun THEN Same("dry")
        ELSE IF ~exists THEN Same("Config file not found")
        \* not found: logged, nothing thrown
        ELSE IF repoLineIndex = 0 THEN Same("no application")
        ELSE IF startIndex = 0 THEN Same("no start of block")
        ELSE [outcome |-> "removed", wrote |-> TRUE, content |-> newContent]

\* ^\s*version:
VersionLineRegex ==
    <<Bol, Cls(WS, "*")>> \o Lit(<<"v", "e", "r", "s", "i", "o", "n">>) \o <<Cls({":"}, "1")>>

\* ^((\s*)version:\s*)(.*)$
VersionValueRegex ==
    <<Bol, Open(1), Open(2), Cls(WS, "*"), Close(2)>>
    \o Lit(<<"v", "e", "r", "s", "i", "o", "n">>)
    \o <<Cls({":"}, "1"), Cls(WS, "*"), Close(1),
         Open(3), NotCls({NL}, "*"), Close(3), Eol>>

\* `${repoIndent}version: ${newVersion}`
VersionLine(repoLine, newVersion) ==
    Sub(repoLine, 1, RunLen(Cls(WS, "*"), repoLine, 1))
    \o <<"v", "e", "r", "s", "i", "o", "n", ":", SP>> \o newVersion

\* updateConfigVersion(configFile, repo, newVersion, dryRun) of a config
\* file with the given content
updateConfigVersion(exists, content, repo, newVersion, dryRun) ==
    LET lines == Split(content, NL)
        repoLineIndex == RepoLineIndex(lines, repo)
        appStartIndex == BlockStart(lines, repoLineIndex)
        searchEndIndex == BlockEnd(lines, appStartIndex)
        found == {i \in appStartIndex..(searchEndIndex - 1) :
                    Test(VersionLineRegex, lines[i])}
        versionIndex == Min(found)
        newLines ==
            IF found # {}
            THEN [lines EXCEPT ![versionIndex] =
                    Replace(VersionValueRegex, lines[versionIndex],
                            <<"$", "1">> \o newVersion)]
            ELSE Sub(lines, 1, repoLineIndex)
                 \o <<VersionLine(lines[repoLineIndex], newVersion)>>
                 \o Sub(lines, repoLineIndex + 1, Len(lines))
        Same(o) == [outcome |-> o, wrote |-> FALSE, content |-> content]
    IN  IF dryRun THEN Same("dry")
        ELSE IF ~exists THEN Same("Config file not found")
        ELSE IF repoLineIndex = 0 THEN Same("Could not find application")
        \* no list item above the repo line: lines[-1].match(...) throws
        ELSE IF appStartIndex = 0 THEN Same("TypeError")
        ELSE [outcome |-> "updated", wrote |-> TRUE, content |-> Join(newLines, NL)]

(***************************************************************************)
(* utils.ts                                                                *)
(***************************************************************************)
\* (\d+\.\d+.*)$
VersionRegex ==
    <<Open(1), Cls(Digits, "+"), Cls({"."}, "1"), Cls(Digits, "+"),
      NotCls({NL}, "*"), Close(1), End>>

\* normalizeVersion(v)
normalizeVersion(v) ==
    IF Len(v) = 0 THEN <<>>
    ELSE LET m == Exec(VersionRegex, v)
         IN  IF m.ok THEN Group(v, m, 1)
             ELSE IF v[1] = "v" THEN Tail(v) ELSE v

\* /[-](alpha|beta|rc|next|canary|pre)/i: one pattern for each alternative,
\* a letter in either case
Markers ==
    {<<"a", "l", "p", "h", "a">>, <<"b", "e", "t", "a">>, <<"r", "c">>,
     <<"n", "e", "x", "t">>, <<"c", "a", "n", "a", "r", "y">>, <<"p", "r", "e">>}
Lower == <<"a", "b", "c", "d", "e", "f", "g", "h", "i", "j", "k", "l", "m",
           "n", "o", "p", "q", "r", "s", "t", "u", "v", "w", "x", "y", "z">>
Upper == <<"A", "B", "C", "D", "E", "F", "G", "H", "I", "J", "K", "L", "M",
           "N", "O", "P", "Q", "R", "S", "T", "U", "V", "W", "X", "Y", "Z">>
BothCases(c) == {c} \cup {Upper[i] : i \in {j \in 1..26 : Lower[j] = c}}
PrereleaseRegex(marker) ==
    <<Cls({"-"}, "1")>> \o [i \in 1..Len(marker) |-> Cls(BothCases(marker[i]), "1")]

\* isPrerelease(v)
isPrerelease(v) ==
    \E marker \in Markers : Test(PrereleaseRegex(marker), normalizeVersion(v))

\* a JavaScript number: NaN or a non-negative integer
NaN == [nan |-> TRUE, n |-> 0]
Num(n) == [nan |-> FALSE, n |-> n]

\* the place of the exponent mark of a decimal literal `<digits>e<digits>`
\* (0: the string is no such literal)
ExponentMark(s) ==
    LET es == {i \in 2..(Len(s) - 1) :
                /\ s[i] \in {"e", "E"}
                /\ AllDigits(Sub(s, 1, i - 1))
                /\ AllDigits(Sub(s, i + 1, Len(s)))}
    IN  IF es = {} THEN 0 ELSE Min(es)

\* Number(s) of a string of digits and letters: the empty string is 0, a
\* string of digits its value, `<digits>e<digits>` the decimal literal
\* with that exponent, and anything else NaN
Number(s) ==
    IF Len(s) = 0 THEN Num(0)
    ELSE IF AllDigits(s) THEN Num(ParseInt(s))
    ELSE IF ExponentMark(s) > 0
    THEN Num(ParseInt(Sub(s, 1, ExponentMark(s) - 1))
             * 10 ^ ParseInt(Sub(s, ExponentMark(s) + 1, Len(s))))
    ELSE NaN

\* the order of the UTF-16 code units of the characters of versions
CodeUnits == <<"-", ".", "/", "0", "1", "2", "3", "4", "5", "6", "7", "8", "9", ":">>
             \o Upper \o Lower
CharCode(c) == Min({i \in 1..Len(CodeUnits) : CodeUnits[i] = c})

\* p1 > p2 of two strings
RECURSIVE StringGreater(_, _)
StringGreater(p1, p2) ==
    IF Len(p1) = 0 THEN FALSE
    ELSE IF Len(p2) = 0 THEN TRUE
    ELSE IF p1[1] # p2[1] THEN CharCode(p1[1]) > CharCode(p2[1])
    ELSE StringGreater(Tail(p1), Tail(p2))

\* norm.indexOf('-'), and the two substrings around it
VerOf(norm) ==
    IF IndexOf(norm, "-") = 0 THEN norm ELSE Sub(norm, 1, IndexOf(norm, "-") - 1)
PreOf(norm) ==
    IF IndexOf(norm, "-") = 0 THEN <<>> ELSE Sub(norm, IndexOf(norm, "-") + 1, Len(norm))

\* ver.split('.').map(Number)
PartsOf(ver) == [i \in 1..Len(Split(ver, ".")) |-> Number(Split(ver, ".")[i])]

\* parts[i] ?? 0
PartOrZero(parts, i) == IF i <= Len(parts) THEN parts[i] ELSE Num(0)

\* p1 > p2 of two numbers: false when one of them is NaN
NumberGreater(p1, p2) == ~p1.nan /\ ~p2.nan /\ p1.n > p2.n

\* the first loop from index i on: 1 or -1 when it returns, 0 when it ends
RECURSIVE CompareParts(_, _, _)
CompareParts(parts1, parts2, i) ==
    IF i > Max({Len(parts1), Len(parts2)}) THEN 0
    ELSE IF NumberGreater(PartOrZero(parts1, i), PartOrZero(parts2, i)) THEN 1
    ELSE IF NumberGreater(PartOrZero(parts2, i), PartOrZero(parts1, i)) THEN -1
    ELSE CompareParts(parts1, parts2, i + 1)

\* !isNaN(n) && p !== ''
IsN(p) == ~Number(p).nan /\ Len(p) > 0

\* one round of the second loop on two segments: 1 or -1 when it returns,
\* 0 when the loop goes on
CompareSegments(p1, p2) ==
    IF IsN(p1) /\ IsN(p2)
    THEN (IF Number(p1).n > Number(p2).n THEN 1
          ELSE IF Number(p1).n < Number(p2).n THEN -1 ELSE 0)
    ELSE IF IsN(p1) THEN -1
    ELSE IF IsN(p2) THEN 1
    ELSE IF StringGreater(p1, p2) THEN 1
    ELSE IF StringGreater(p2, p1) THEN -1
    ELSE 0

\* the second loop from index i on
RECURSIVE ComparePreParts(_, _, _)
ComparePreParts(preParts1, preParts2, i) ==
    IF i > Max({Len(preParts1), Len(preParts2)}) THEN 0
    ELSE IF i > Len(preParts1) THEN -1
    ELSE IF i > Len(preParts2) THEN 1
    ELSE IF CompareSegments(preParts1[i], preParts2[i]) # 0
    THEN CompareSegments(preParts1[i], preParts2[i])
    ELSE ComparePreParts(preParts1, preParts2, i + 1)

\* compareVersions after the first loop has ended without a return
ComparePre(pre1, pre2) ==
    IF Len(pre1) = 0 /\ Len(pre2) > 0 THEN 1
    ELSE IF Len(pre1) > 0 /\ Len(pre2) = 0 THEN -1
    ELSE IF Len(pre1) = 0 /\ Len(pre2) = 0 THEN 0
    ELSE ComparePreParts(Split(pre1, "."), Split(pre2, "."), 1)

CompareNormalized(norm1, norm2) ==
    IF CompareParts(PartsOf(VerOf(norm1)), PartsOf(VerOf(norm2)), 1) # 0
    THEN CompareParts(PartsOf(VerOf(norm1)), PartsOf(VerOf(norm2)), 1)
    ELSE ComparePre(PreOf(norm1), PreOf(norm2))

\* compareVersions(v1, v2)
compareVersions(v1, v2) == CompareNormalized(normalizeVersion(v1), normalizeVersion(v2))

\* getRelevantReleases with the push before the comparison with the
\* current version: the release of the current version is kept
getRelevantReleasesKeepingCurrent(releases, currentVersion, maxReleases) ==
    LET cur == normalizeVersion(currentVersion)
        hits == {i \in 1..Len(releases) : normalizeVersion(releases[i].tag_name) = cur}
        stop == IF hits = {} THEN Len(releases) ELSE Min(hits)
    IN  Sub(releases, 1, IF maxReleases < 0 THEN stop
                         ELSE Min({stop, Max({maxReleases, 1})}))

\* getRelevantReleases(releases, currentVersion, maxReleases): the releases
\* before the first one whose tag is the current version; the loop stops
\* after a push that reaches maxReleases (a negative maxReleases stands for
\* Infinity)
getRelevantReleases(releases, currentVersion, maxReleases) ==
    LET cur == normalizeVersion(currentVersion)
        hits == {i \in 1..Len(releases) : normalizeVersion(releases[i].tag_name) = cur}
        stop == IF hits = {} THEN Len(releases) ELSE Min(hits) - 1
    IN  Sub(releases, 1, IF maxReleases < 0 THEN stop
                         ELSE Min({stop, Max({maxReleases, 1})}))

\* the version prefix of a granularity: the first component (major), the
\* first two (minor) or the first three (patch) of the normalized version
GranularityParts(granularity) ==
    CASE granularity = "major" -> 1
      [] granularity = "minor" -> 2
      [] granularity = "patch" -> 3
GroupKey(tag, granularity) ==
    LET parts == Split(normalizeVersion(tag), ".")
    IN  Join(Sub(parts, 1, Min({Len(parts), GranularityParts(granularity)})), ".")

\* the keys of the releases, each once, in the order of first appearance
GroupKeys(releases, granularity) ==
    LET first == {i \in 1..Len(releases) :
                    \A j \in 1..(i - 1) : GroupKey(releases[j].tag_name, granularity)
                                            # GroupKey(releases[i].tag_name, granularity)}
    IN  [k \in 1..Cardinality(first) |->
            GroupKey(Pick(releases, first)[k].tag_name, granularity)]

\* applyVersionLag that goes back one group too few
applyVersionLagOneGroupShort(releases, lagCount, granularity) ==
    IF lagCount = 0 \/ lagCount >= Len(GroupKeys(releases, granularity)) THEN releases
    ELSE SelectSeq(releases,
                   LAMBDA r : GroupKey(r.tag_name, granularity)
                              = GroupKeys(releases, granularity)[lagCount])

\* applyVersionLag(releases, lagCount, granularity): the releases of the
\* group at index lagCount (from 0); the list as it is for the lag 0 and
\* for a lag that no group has
applyVersionLag(releases, lagCount, granularity) ==
    IF lagCount = 0 \/ lagCount >= Len(GroupKeys(releases, granularity)) THEN releases
    ELSE SelectSeq(releases,
                   LAMBDA r : GroupKey(r.tag_name, granularity)
                              = GroupKeys(releases, granularity)[lagCount + 1])

\* s.includes(sub) for a string sub
IncludesStr(s, sub) ==
    \E i \in 1..(Len(s) - Len(sub) + 1) : Sub(s, i, i + Len(sub) - 1) = sub

(***************************************************************************)
(* services.ts                                                             *)
(***************************************************************************)
\* ^\d+\.\d+(\.\d+)?$
VersionTagRegex ==
    <<Bol, Cls(Digits, "+"), Cls({"."}, "1"), Cls(Digits, "+"),
      Opt(<<Cls({"."}, "1"), Cls(Digits, "+")>>), Eol>>

NoRelease == [tag_name |-> <<>>, name |-> <<>>, none |-> TRUE]
Release(tag) == [tag_name |-> tag, name |-> <<>>, none |-> FALSE]

First(S, results) == IF S = {} THEN NoRelease ELSE results[Min(S)]

\* DockerHubService.fetchLatestTag: the first tag that is a plain version,
\* else the first tag that is not `latest`, else the first tag; NoRelease
\* stands for the rejection `No tags found`
fetchLatestTag(results) ==
    LET versionTags == {i \in 1..Len(results) : Test(VersionTagRegex, results[i].tag_name)}
        notLatest == {i \in 1..Len(results) :
                        results[i].tag_name # <<"l", "a", "t", "e", "s", "t">>}
    IN  IF versionTags # {} THEN First(versionTags, results)
        ELSE IF notLatest # {} THEN First(notLatest, results)
        ELSE First(DOMAIN results, results)

\* GET .../tags?page_size=20&ordering=last_updated: the answer to the one
\* request fetchLatestTag makes is the first page of the tags of the
\* repository, the most recently updated first
PageSize == 20
FirstPage(tags) == Sub(tags, 1, Min({Len(tags), PageSize}))

\* releases.find(r => r.tag_name.includes(filter) || (r.name && r.name.includes(filter)))
FindFiltered(releases, filter) ==
    First({i \in 1..Len(releases) :
            \/ IncludesStr(releases[i].tag_name, filter)
            \/ Len(releases[i].name) > 0 /\ IncludesStr(releases[i].name, filter)},
          releases)

(***************************************************************************)
(* utils.ts: the body of the pull request.  A character of a text is one   *)
(* UTF-16 code unit, as String.prototype.length counts them; a code unit   *)
(* outside ASCII, and the backquote, is written "uXXXX".                   *)
(***************************************************************************)
\* formatRisk(risk)
formatRisk(risk) ==
    CASE risk = "None" -> <<"N", "o", "n", "e", SP, "u2705">>
      [] risk = "Low" -> <<"L", "o", "w", SP, "uD83D", "uDFE2">>
      [] risk = "Medium" -> <<"M", "e", "d", "i", "u", "m", SP, "uD83D", "uDFE1">>
      [] risk = "High" -> <<"H", "i", "g", "h", SP, "uD83D", "uDD34">>

\* new Date(published_at).toLocaleDateString() of a date `YYYY-MM-DD` in
\* the locale en-US: M/D/YYYY
toLocaleDateString(published_at) ==
    LET ymd == Split(published_at, "-")
    IN  StripLeadingZeros(ymd[2]) \o <<"/">> \o StripLeadingZeros(ymd[3])
        \o <<"/">> \o ymd[1]

\* rel.published_at ? new Date(rel.published_at).toLocaleDateString() : 'unknown date'
DateStr(rel) ==
    IF Len(rel.published_at) > 0 THEN toLocaleDateString(rel.published_at)
    ELSE <<"u", "n", "k", "n", "o", "w", "n", SP, "d", "a", "t", "e">>

YesNo(b) == IF b THEN <<"Y", "e", "s">> ELSE <<"N", "o">>

\* `Automated version update for **${displayName}**.\n\n`
BodyHead(displayName) ==
    <<"A", "u", "t", "o", "m", "a", "t", "e", "d", SP, "v", "e", "r",
      "s", "i", "o", "n", SP, "u", "p", "d", "a", "t", "e", SP, "f", "o",
      "r", SP, "*", "*">>
    \o displayName \o <<"*", "*", ".", NL, NL>>

\* the three lines that open the AI section
AssessmentHead(aiAssessment) ==
    <<"#", "#", "#", SP, "uD83E", "uDD16", SP, "A", "I", SP, "R", "i",
      "s", "k", SP, "A", "s", "s", "e", "s", "s", "m", "e", "n", "t", NL>>
    \o <<"-", SP, "*", "*", "O", "v", "e", "r", "a", "l", "l", SP, "R",
         "i", "s", "k", SP, "L", "e", "v", "e", "l", "*", "*", ":", SP>>
    \o formatRisk(aiAssessment.overallRisk) \o <<NL>>
    \o <<"-", SP, "*", "*", "O", "v", "e", "r", "a", "l", "l", SP, "W",
         "o", "r", "r", "y", SP, "F", "r", "e", "e", "*", "*", ":", SP>>
    \o (IF aiAssessment.overallWorryFree THEN <<"Y", "e", "s", SP, "u2705">>
        ELSE <<"N", "o", SP, "u26A0", "uFE0F">>)
    \o <<NL, NL>>
    \o <<"#", "#", "#", "#", SP, "D", "e", "t", "a", "i", "l", "e", "d",
         SP, "R", "e", "l", "e", "a", "s", "e", SP, "S", "u", "m", "m",
         "a", "r", "i", "e", "s", NL>>

\* `- **[${rel.tag_name}](${rel.html_url})** (${dateStr})`
LinkLine(rel) ==
    <<"-", SP, "*", "*", "[">> \o rel.tag_name \o <<"]", "(">> \o rel.html_url
    \o <<")", "*", "*", SP, "(">> \o DateStr(rel) \o <<")">>

\* the link line of a release of the assessment, with its risk
RiskLine(rel) ==
    LinkLine(rel) \o <<SP, "(", "R", "i", "s", "k", ":", SP>> \o formatRisk(rel.risk)
    \o <<",", SP, "W", "o", "r", "r", "y", "-", "f", "r", "e", "e", ":", SP>>
    \o YesNo(rel.worryFree) \o <<")", NL>>

\* the summary of a release and, when its risk is not None, its
\* recommendation (<<>> stands for no recommendations)
Description(rel) ==
    <<SP, SP>> \o rel.summary \o <<NL>>
    \o (IF rel.risk # "None" /\ Len(rel.recommendations) > 0
        THEN <<SP, SP, ">", SP, "*", "*", "uD83D", "uDCA1", SP, "R", "e",
               "c", "o", "m", "m", "e", "n", "d", "a", "t", "i", "o", "n",
               ":", "*", "*", SP>>
             \o rel.recommendations \o <<NL>>
        ELSE <<>>)

\* the loop over aiAssessment.releases with `i < aiDescriptionsLimit`
\* replaced by a test that keeps the descriptions of the last releases
RECURSIVE SummariesFromKeepingLast(_, _, _)
SummariesFromKeepingLast(releases, i, aiDescriptionsLimit) ==
    IF i > Len(releases) THEN <<>>
    ELSE RiskLine(releases[i])
         \o (IF Len(releases) - i < aiDescriptionsLimit THEN Description(releases[i])
             ELSE <<>>)
         \o SummariesFromKeepingLast(releases, i + 1, aiDescriptionsLimit)

\* the loop over aiAssessment.releases from release i on
RECURSIVE SummariesFrom(_, _, _)
SummariesFrom(releases, i, aiDescriptionsLimit) ==
    IF i > Len(releases) THEN <<>>
    ELSE RiskLine(releases[i])
         \o (IF i - 1 < aiDescriptionsLimit THEN Description(releases[i]) ELSE <<>>)
         \o SummariesFrom(releases, i + 1, aiDescriptionsLimit)

\* the loop over relevantReleases from release i on
RECURSIVE IncludedFrom(_, _)
IncludedFrom(relevantReleases, i) ==
    IF i > Len(relevantReleases) THEN <<>>
    ELSE LinkLine(relevantReleases[i]) \o <<NL>> \o IncludedFrom(relevantReleases, i + 1)

IncludedHead ==
    <<"#", "#", "#", SP, "uD83D", "uDCE6", SP, "I", "n", "c", "l", "u",
      "d", "e", "d", SP, "R", "e", "l", "e", "a", "s", "e", "s", NL>>

\* what opens and what closes the block of the execution log
LogOpen ==
    <<NL, "-", "-", "-", NL, "<", "d", "e", "t", "a", "i", "l", "s", ">",
      NL, "<", "s", "u", "m", "m", "a", "r", "y", ">", "uD83D", "uDCC4",
      SP, "F", "u", "l", "l", SP, "E", "x", "e", "c", "u", "t", "i", "o",
      "n", SP, "L", "o", "g", "s", "<", "/", "s", "u", "m", "m", "a", "r",
      "y", ">", NL, NL, "u0060", "u0060", "u0060", "t", "e", "x", "t", NL>>
LogClose ==
    <<NL, "u0060", "u0060", "u0060", NL, "<", "/", "d", "e", "t", "a", "i", "l", "s",
      ">", NL>>
LogBlock(logBuffer) == LogOpen \o logBuffer \o LogClose

\* null as aiAssessment
NoAssessment ==
    [none |-> TRUE, overallRisk |-> "None", overallWorryFree |-> TRUE, releases |-> <<>>]

\* prBody as one round of the loop builds it
PrBody(displayName, aiAssessment, relevantReleases, logBuffer, includeLogs, aiDescriptionsLimit) ==
    BodyHead(displayName)
    \o (IF ~aiAssessment.none
        THEN AssessmentHead(aiAssessment)
             \o SummariesFrom(aiAssessment.releases, 1, aiDescriptionsLimit)
        ELSE IncludedHead \o IncludedFrom(relevantReleases, 1))
    \o (IF includeLogs THEN LogBlock(logBuffer) ELSE <<>>)

TruncationMarker ==
    <<NL, NL, ".", ".", ".", "(", "b", "o", "d", "y", SP, "t", "r", "u",
      "n", "c", "a", "t", "e", "d", ")">>

\* s.substring(0, n): a negative n is taken as 0
Substring0(s, n) == Sub(s, 1, Min({Len(s), Max({n, 0})}))

\* the last resort without the substring: the whole body and the marker
TruncatedKeepsAll(prBody, maxBodySize) == prBody \o TruncationMarker

\* prBody.substring(0, maxBodySize - 50) + '\n\n...(body truncated)'
Truncated(prBody, maxBodySize) ==
    Substring0(prBody, maxBodySize - 50) \o TruncationMarker

\* the rounds of `while (true)` from the one with the given includeLogs and
\* aiDescriptionsLimit on
RECURSIVE ReduceUntilFits(_, _, _, _, _, _, _)
BreakOrReduce(displayName, aiAssessment, relevantReleases, logBuffer, maxBodySize, includeLogs, aiDescriptionsLimit, prBody) ==
    IF Len(prBody) <= maxBodySize THEN prBody
    ELSE IF includeLogs
    THEN ReduceUntilFits(displayName, aiAssessment, relevantReleases, logBuffer,
                         maxBodySize, FALSE, aiDescriptionsLimit)
    ELSE IF aiDescriptionsLimit > 0
    THEN ReduceUntilFits(displayName, aiAssessment, relevantReleases, logBuffer,
                         maxBodySize, FALSE, aiDescriptionsLimit - 1)
    ELSE Truncated(prBody, maxBodySize)

ReduceUntilFits(displayName, aiAssessment, relevantReleases, logBuffer, maxBodySize, includeLogs, aiDescriptionsLimit) ==
    BreakOrReduce(displayName, aiAssessment, relevantReleases, logBuffer, maxBodySize,
                  includeLogs, aiDescriptionsLimit,
                  PrBody(displayName, aiAssessment, relevantReleases, logBuffer,
                         includeLogs, aiDescriptionsLimit))

\* generatePrBody(displayName, aiAssessment, relevantReleases, logBuffer, maxBodySize)
generatePrBody(displayName, aiAssessment, relevantReleases, logBuffer, maxBodySize) ==
    ReduceUntilFits(displayName, aiAssessment, relevantReleases, logBuffer, maxBodySize,
                    TRUE,
                    IF aiAssessment.none THEN 0 ELSE Len(aiAssessment.releases))

(***************************************************************************)
(* The documents and inputs of the model.                                  *)
(***************************************************************************)
kImg == <<"i", "m", "g">>
kTag == <<"t", "a", "g">>
kApp == <<"a", "p", "p">>
kDb == <<"d", "b">>
Keys == {kImg, kTag, kApp, kDb}

\* values as written in a document
vImage == <<"b", ":", "1", ".", "3">>
vRegistry == <<"r", ":", "5", "/", "b", ":", "1", ".", "3">>
vSemver == <<"1", ".", "0", ".", "1">>
vFloat == <<"1", ".", "1", "0">>
vQuoted == <<DQ, "1", ".", "0", ".", "1", DQ>>
vEmpty == <<>>
Values == {vImage, vRegistry, vSemver, vFloat, vQuoted, vEmpty}

\* what follows the value on its line
Trailers == {<<>>, <<SP, "#", "c">>}

\* the new versions written
NewValues == {<<"2", ".", "0", ".", "1">>, <<"1", ".", "2", "0">>}

Types == {"kubernetes", "helm"}

Line(k, v, t) == k \o <<":">> \o (IF Len(v) = 0 THEN <<>> ELSE <<SP>> \o v) \o t
Indent2(l) == <<SP, SP>> \o l

\* img: V T
DocFlat(v, t) == Line(kImg, v, t)
\* img: V T / tag: x
DocFlatNext(v, t) == Line(kImg, v, t) \o <<NL>> \o Line(kTag, <<"x">>, <<>>)
\* tag: x / img: V T
DocFlatPrev(v, t) == Line(kTag, <<"x">>, <<>>) \o <<NL>> \o Line(kImg, v, t)
\* app: /   img: W / db: /   img: V T
DocNested(w, v, t) ==
    Line(kApp, <<>>, <<>>) \o <<NL>> \o Indent2(Line(kImg, w, <<>>)) \o <<NL>>
    \o Line(kDb, <<>>, <<>>) \o <<NL>> \o Indent2(Line(kImg, v, t))
\* app: / - img: V T
DocList(v, t) ==
    Line(kApp, <<>>, <<>>) \o <<NL>> \o <<"-", SP>> \o Line(kImg, v, t)

\* a target: a document and the dotted path of the value to change
Targets ==
    UNION {
        {[doc |-> DocFlat(v, t), path |-> <<kImg>>],
         [doc |-> DocFlatNext(v, t), path |-> <<kImg>>],
         [doc |-> DocFlatPrev(v, t), path |-> <<kImg>>],
         [doc |-> DocList(v, t), path |-> <<kApp, <<"0">>, kImg>>],
         [doc |-> DocNested(vImage, v, t), path |-> <<kDb, kImg>>],
         [doc |-> DocNested(vSemver, v, t), path |-> <<kDb, kImg>>]}
        : v \in Values, t \in Trailers}
    \cup {[doc |-> DocFlat(v, <<>>), path |-> <<kApp, kImg>>] : v \in Values}
    \cup {[doc |-> DocFlat(v, <<>>), path |-> <<kTag>>] : v \in Values}

(***************************************************************************)
(* State.                                                                  *)
(***************************************************************************)
VARIABLES
    rev,      \* which revision of setYamlValue the program runs
    file,     \* the content of the target file
    path,     \* the dotted path of the target
    type,     \* "kubernetes" or "helm"
    calls,    \* the number of file-updater calls made
    last,     \* the last call: its inputs, the file before it, its outcome
    config,   \* the inputs of run()
    disk,     \* the files of the working tree of run()
    remote,   \* the releases (or tags) the source answers with
    pc,       \* where run() is
    local,    \* the local variables of run()
    execs,    \* the git commands executed
    prs,      \* the pull requests created or updated
    writes,   \* the files written
    shown,    \* the git commands a dry run only logs
    failed,   \* the message given to core.setFailed ("" when none)
    args,     \* the arguments given to a function of utils.ts
    result    \* what the function returned for them

updaterVars == <<file, path, type, calls, last>>
runVars == <<config, disk, remote, pc, local, execs, prs, writes, shown, failed>>
utilVars == <<args, result>>
vars == <<rev, updaterVars, runVars, utilVars>>

\* no function of utils.ts is under call
NoUtil == args = <<>> /\ result = <<>>

\* run() is not running
NoRun ==
    /\ config = [dryRun |-> FALSE]
    /\ disk = <<>>
    /\ remote = <<>>
    /\ pc = "idle"
    /\ local = <<>>
    /\ execs = <<>>
    /\ prs = <<>>
    /\ writes = <<>>
    /\ shown = <<>>
    /\ failed = ""

NoCall ==
    [op |-> "none", newValue |-> <<>>, repo |-> <<>>, dryRun |-> FALSE,
     before |-> <<>>, outcome |-> "none", wrote |-> FALSE, ret |-> Null]

Init ==
    /\ rev \in Revisions
    /\ \E tg \in Targets : file = tg.doc /\ path = tg.path
    /\ type \in Types
    /\ calls = 0
    /\ last = NoCall
    /\ NoRun
    /\ NoUtil

\* a call of setYamlValue(file, path, newValue, type, dryRun)
SetYamlValue(newValue, dryRun) ==
    /\ calls < MaxCalls
    /\ LET r == setYamlValue(rev, file, path, newValue, type, dryRun)
       IN  /\ file' = r.content
           /\ last' = [op |-> "set", newValue |-> newValue, repo |-> <<>>, dryRun |-> dryRun,
                       before |-> file, outcome |-> r.outcome, wrote |-> r.wrote,
                       ret |-> getYamlValue(file, path)]
    /\ calls' = calls + 1
    /\ UNCHANGED <<rev, utilVars, path, type, runVars>>

\* a call of getYamlValue(file, path)
GetYamlValue ==
    /\ last.op # "get"
    /\ last' = [op |-> "get", newValue |-> last.newValue, repo |-> <<>>, dryRun |-> FALSE,
                before |-> file, outcome |-> last.outcome, wrote |-> FALSE,
                ret |-> getYamlValue(file, path)]
    /\ UNCHANGED <<rev, utilVars, file, path, type, calls, runVars>>

Next ==
    \/ \E nv \in NewValues, d \in BOOLEAN : SetYamlValue(nv, d)
    \/ GetYamlValue

Spec == Init /\ [][Next]_vars

(***************************************************************************)
(* The tracking config file: a list of application blocks.                 *)
(***************************************************************************)
kName == <<"n", "a", "m", "e">>
kRepo == <<"r", "e", "p", "o">>
kFile == <<"f", "i", "l", "e">>
kTargets == <<"t", "a", "r", "g", "e", "t", "s">>
kApps == <<"a", "p", "p", "s">>
kTail == <<"t", "a", "i", "l">>

Quoted(v) == <<SQ>> \o v \o <<SQ>>
\* "  - L"
Item(l) == <<SP, SP, "-", SP>> \o l
\* "    L"
Member(l) == <<SP, SP, SP, SP>> \o l
\* "      - L"
NestedItem(l) == <<SP, SP, SP, SP, SP, SP, "-", SP>> \o l
Blanks(n) == [i \in 1..n |-> <<>>]

\* the repositories of the two blocks, and one no block has
RepoX == <<"o", "/", "x">>
RepoY == <<"o", "/", "y">>
RepoQ == <<"o", "/", "q">>
Repos == {RepoX, RepoY, RepoQ}

\* - name: 'N' / (k empty lines) / repo: 'R'
BlockNameFirst(name, repo, k) ==
    <<Item(Line(kName, Quoted(name), <<>>))>> \o Blanks(k)
    \o <<Member(Line(kRepo, Quoted(repo), <<>>))>>
\* - name: 'N' / repo: R
BlockPlain(name, repo) ==
    <<Item(Line(kName, Quoted(name), <<>>)), Member(Line(kRepo, repo, <<>>))>>
\* - repo: 'R' / name: 'N'
BlockRepoFirst(name, repo) ==
    <<Item(Line(kRepo, Quoted(repo), <<>>)), Member(Line(kName, Quoted(name), <<>>))>>
\* - name: 'N' / targets: / - file: f / repo: 'R'
BlockNested(name, repo) ==
    <<Item(Line(kName, Quoted(name), <<>>)), Member(Line(kTargets, <<>>, <<>>)),
      NestedItem(Line(kFile, <<"f">>, <<>>)), Member(Line(kRepo, Quoted(repo), <<>>))>>

MaxBlank == 2
AppBlocks(name, repo) ==
    {BlockNameFirst(name, repo, k) : k \in 0..MaxBlank}
    \cup {BlockPlain(name, repo), BlockRepoFirst(name, repo), BlockNested(name, repo)}

\* what follows the list: nothing, or a key of the top level
Tails == {<<>>, <<Line(kTail, <<"z">>, <<>>)>>}

\* apps: / block of o/x / (empty lines) / block of o/y / tail
ConfigDocs ==
    {Join(<<Line(kApps, <<>>, <<>>)>> \o b1 \o Blanks(sep) \o b2 \o tl, NL) :
        b1 \in AppBlocks(<<"a">>, RepoX), b2 \in AppBlocks(<<"b">>, RepoY),
        sep \in 0..MaxBlank, tl \in Tails}

ConfigInit ==
    /\ rev = "part_002"
    /\ file \in ConfigDocs
    /\ path = <<>>
    /\ type = "helm"
    /\ calls = 0
    /\ last = NoCall
    /\ NoRun
    /\ NoUtil

\* a call of removeApplicationFromConfig(configFile, repo, dryRun)
RemoveApplicationFromConfig(repo, dryRun) ==
    /\ calls < MaxCalls
    /\ LET r == removeApplicationFromConfig(TRUE, file, repo, dryRun)
       IN  /\ file' = r.content
           /\ last' = [op |-> "remove", newValue |-> <<>>, repo |-> repo,
                       dryRun |-> dryRun, before |-> file, outcome |-> r.outcome,
                       wrote |-> r.wrote, ret |-> Null]
    /\ calls' = calls + 1
    /\ UNCHANGED <<rev, utilVars, path, type, runVars>>

\* the versions written by updateConfigVersion
NewVersions == {<<"2", ".", "0">>, <<"v", "3">>}

\* a call of updateConfigVersion(configFile, repo, newVersion, dryRun)
UpdateConfigVersion(repo, newVersion, dryRun) ==
    /\ calls < MaxCalls
    /\ LET r == updateConfigVersion(TRUE, file, repo, newVersion, dryRun)
       IN  /\ file' = r.content
           /\ last' = [op |-> "update", newValue |-> newVersion, repo |-> repo,
                       dryRun |-> dryRun, before |-> file, outcome |-> r.outcome,
                       wrote |-> r.wrote, ret |-> Null]
    /\ calls' = calls + 1
    /\ UNCHANGED <<rev, utilVars, path, type, runVars>>

ConfigNext == \E repo \in Repos, d \in BOOLEAN : RemoveApplicationFromConfig(repo, d)

SpecConfig == ConfigInit /\ [][ConfigNext]_vars

\* the tracking config maintained by both operations: documents of two
\* adjacent application blocks, removals and version updates
AppDocs ==
    {Join(<<Line(kApps, <<>>, <<>>)>> \o b1 \o b2 \o tl, NL) :
        b1 \in AppBlocks(<<"a">>, RepoX) \ {BlockNameFirst(<<"a">>, RepoX, k) : k \in 1..MaxBlank},
        b2 \in AppBlocks(<<"b">>, RepoY) \ {BlockNameFirst(<<"b">>, RepoY, k) : k \in 1..MaxBlank},
        tl \in Tails}

AppsInit ==
    /\ rev = "part_002"
    /\ file \in AppDocs
    /\ path = <<>>
    /\ type = "helm"
    /\ calls = 0
    /\ last = NoCall
    /\ NoRun
    /\ NoUtil

AppsNext ==
    \/ \E repo \in Repos, d \in BOOLEAN : RemoveApplicationFromConfig(repo, d)
    \/ \E repo \in Repos, v \in NewVersions, d \in BOOLEAN :
            UpdateConfigVersion(repo, v, d)

SpecApps == AppsInit /\ [][AppsNext]_vars

(***************************************************************************)
(* run() of main.ts.                                                       *)
(***************************************************************************)
FileA == <<"a">>
FileB == <<"b">>
ConfigFile == <<"c">>
Files == {FileA, FileB, ConfigFile}

Missing == [exists |-> FALSE, content |-> <<>>]
Present(content) == [exists |-> TRUE, content |-> content]

V12 == <<"1", ".", "2">>
V13 == <<"1", ".", "3">>
V14 == <<"1", ".", "4">>
Prefixed(v) == <<"v">> \o v

\* the input `targets`
TargetA == [file |-> FileA, path |-> <<kImg>>]
TargetB == [file |-> FileB, path |-> <<kImg>>]
TargetLists == {<<>>, <<TargetA>>, <<TargetA, TargetB>>, <<TargetA, TargetA>>}

\* the first target file: missing, an image reference, a chart version
FirstTargetFiles ==
    {Missing, Present(Line(kImg, <<"b", ":">> \o V13, <<>>)),
     Present(Line(kImg, Prefixed(V13), <<>>))}

\* the tracking config: missing, or two applications, the one of o/x with
\* the name or with the repo as its first key
TrackingConfigs ==
    {Missing,
     Present(Join(<<Line(kApps, <<>>, <<>>)>> \o BlockPlain(<<"a">>, RepoX)
                  \o BlockNameFirst(<<"b">>, RepoY, 0), NL)),
     Present(Join(<<Line(kApps, <<>>, <<>>)>> \o BlockRepoFirst(<<"a">>, RepoX)
                  \o BlockNameFirst(<<"b">>, RepoY, 0), NL))}

\* what the source answers with, the most recently published first: no
\* release, the releases of a line, and a patch of an older line published
\* after the releases of the newer ones
Remotes ==
    {<<>>, <<Release(Prefixed(V13))>>, <<Release(Prefixed(V14)), Release(Prefixed(V13))>>,
     <<Release(Prefixed(V12)), Release(Prefixed(V14)), Release(Prefixed(V13))>>}

\* the input `repo`: owner/name, or a name alone
RunRepos == {RepoX, <<"x">>}

Configs ==
    {c \in [type : {"kubernetes", "helm", "manual"},
            source : {"github", "dockerhub"},
            targets : TargetLists,
            version : {V13},
            releaseFilter : {<<>>, V13},
            apiKey : BOOLEAN,
            maxReleases : {-1},
            dryRun : BOOLEAN,
            repo : RunRepos,
            configFile : {ConfigFile}] :
        c.type = "manual" => c.targets = <<>>}

NoLocal ==
    [currentVerRaw |-> <<>>, releases |-> <<>>, latestRelease |-> NoRelease,
     updatesNeeded |-> <<>>, relevantReleases |-> <<>>, aiAssessment |-> FALSE,
     branchName |-> <<>>, prTitle |-> <<>>, i |-> 0]

RunInit ==
    /\ rev = "part_002"
    /\ file = <<>>
    /\ path = <<>>
    /\ type = "helm"
    /\ calls = 0
    /\ last = NoCall
    /\ config \in Configs
    /\ \E a \in FirstTargetFiles, c \in TrackingConfigs :
          disk = [f \in Files |->
                    IF f = FileA THEN a
                    ELSE IF f = FileB THEN Present(Line(kImg, V12, <<>>))
                    ELSE c]
    /\ remote \in Remotes
    /\ pc = "read"
    /\ local = NoLocal
    /\ execs = <<>>
    /\ prs = <<>>
    /\ writes = <<>>
    /\ shown = <<>>
    /\ failed = ""
    /\ NoUtil

\* const [owner, repoName] = repo.includes('/') ? repo.split('/') : [null, repo]
Owner(repo) == IF Includes(repo, "/") THEN Split(repo, "/")[1] ELSE <<>>
RepoName(repo) == IF Includes(repo, "/") THEN Split(repo, "/")[2] ELSE repo
\* repoName || config.repo
DisplayName(repo) == IF Len(RepoName(repo)) > 0 THEN RepoName(repo) ELSE repo

\* s.replace(/\//g, '-')
SlashesToDashes(s) == [i \in 1..Len(s) |-> IF s[i] = "/" THEN "-" ELSE s[i]]

\* `bot/remove-${repoName || config.repo}`.replace(/\//g, '-')
RemoveBranchName(repo) ==
    SlashesToDashes(<<"b", "o", "t", "/", "r", "e", "m", "o", "v", "e", "-">>
                    \o DisplayName(repo))

\* `bot/update-${repoName || config.repo}-${latestVerNormalized}`.replace(/\//g, '-')
UpdateBranchName(repo, latestVerNormalized) ==
    SlashesToDashes(<<"b", "o", "t", "/", "u", "p", "d", "a", "t", "e", "-">>
                    \o DisplayName(repo) \o <<"-">> \o latestVerNormalized)

\* the first read of the current version: getYamlValue(...) || '', and in
\* kubernetes mode what follows the first colon of an image reference
TagOf(raw, t) ==
    IF t = "kubernetes" /\ Includes(raw, ":") THEN Split(raw, ":")[2] ELSE raw
CurrentVerRaw(content, p, t) == TagOf(SearchVal(getYamlValue(content, p)), t)

\* the version written: the latest one, with the `v` of the current one
TargetVersion(currentVerRaw, latestVerNormalized) ==
    IF StartsWith(currentVerRaw, <<"v">>) /\ ~StartsWith(latestVerNormalized, <<"v">>)
    THEN <<"v">> \o latestVerNormalized
    ELSE latestVerNormalized

\* run() returns or fails
Return == pc' = "done" /\ failed' = failed
Fail(message) == pc' = "done" /\ failed' = message

\* the call threw
Thrown(r) ==
    r.outcome \in {"ENOENT", "Could not find key", "Config file not found",
                   "Could not find application", "TypeError"}

\* a call that may write the file f has returned r: the file is written,
\* and run() goes on, or fails when the call threw
Called(f, r, next) ==
    /\ disk' = IF r.wrote THEN [disk EXCEPT ![f] = Present(r.content)] ELSE disk
    /\ writes' = IF r.wrote THEN Append(writes, f) ELSE writes
    /\ IF Thrown(r) THEN Fail(r.outcome) ELSE pc' = next /\ failed' = failed

\* main.ts 70-139: the current version of the first target is read; a
\* missing target file with a tracking config starts the removal path
ReadCurrentVersion ==
    /\ pc = "read"
    /\ IF config.type = "manual"
       THEN /\ local' = [local EXCEPT !.currentVerRaw = config.version]
            /\ pc' = "fetch"
            /\ failed' = failed
       ELSE IF config.targets = <<>>
       THEN Fail("No targets defined for application") /\ local' = local
       ELSE LET firstTarget == config.targets[1]
            IN  IF disk[firstTarget.file].exists
                THEN /\ local' = [local EXCEPT !.currentVerRaw =
                                    CurrentVerRaw(disk[firstTarget.file].content,
                                                  firstTarget.path, config.type)]
                     /\ pc' = "fetch"
                     /\ failed' = failed
                ELSE IF disk[config.configFile].exists
                THEN /\ local' = [local EXCEPT
                                    !.branchName = RemoveBranchName(config.repo),
                                    !.prTitle = [kind |-> "remove",
                                                 name |-> DisplayName(config.repo)]]
                     /\ pc' = IF config.dryRun THEN "rm_dry" ELSE "rm_config_name"
                     /\ failed' = failed
                ELSE Fail("File not found") /\ local' = local
    /\ UNCHANGED <<rev, utilVars, updaterVars, config, disk, remote, execs, prs, writes, shown>>

\* main.ts 97-102 and 132: the removal path of a dry run
RemoveDryRun ==
    /\ pc = "rm_dry"
    /\ Called(config.configFile,
              removeApplicationFromConfig(disk[config.configFile].exists,
                  disk[config.configFile].content, config.repo, TRUE),
              "done")
    /\ shown' = shown \o <<"checkout -B", "add", "commit", "push">>
    /\ UNCHANGED <<rev, utilVars, updaterVars, config, remote, local, execs, prs>>

\* main.ts 140-168: the releases are fetched and the latest one is chosen
FetchReleases ==
    /\ pc = "fetch"
    /\ IF config.source = "dockerhub"
       THEN LET latest == fetchLatestTag(remote)
            IN  IF latest.none
                THEN Fail("No tags found") /\ local' = local
                ELSE /\ local' = [local EXCEPT !.latestRelease = latest]
                     /\ pc' = "decide"
                     /\ failed' = failed
       ELSE IF Len(Owner(config.repo)) = 0 \/ Len(RepoName(config.repo)) = 0
       THEN Fail("Invalid repo format for GitHub source") /\ local' = local
       ELSE IF Len(config.releaseFilter) > 0
       THEN LET filtered == FindFiltered(remote, config.releaseFilter)
            IN  IF filtered.none
                THEN Fail("No release found matching filter") /\ local' = local
                ELSE /\ local' = [local EXCEPT !.releases = remote,
                                               !.latestRelease = filtered]
                     /\ pc' = "decide"
                     /\ failed' = failed
       ELSE /\ local' = [local EXCEPT
                            !.releases = remote,
                            !.latestRelease = IF remote = <<>> THEN NoRelease
                                              ELSE remote[1]]
            /\ pc' = "decide"
            /\ failed' = failed
    /\ UNCHANGED <<rev, utilVars, updaterVars, config, disk, remote, execs, prs, writes, shown>>

NoTarget == [file |-> <<>>, path |-> <<>>]

\* latestVerNormalized && currentNormalized && latestVerNormalized !== currentNormalized
UpdateNeeded(currentVerRaw, latestVerNormalized) ==
    /\ Len(latestVerNormalized) > 0
    /\ Len(normalizeVersion(currentVerRaw)) > 0
    /\ latestVerNormalized # normalizeVersion(currentVerRaw)

\* an entry of updatesNeeded for a target
TargetUpdate(t, tCurrentVerRaw, latestVerNormalized) ==
    [target |-> t, currentVerRaw |-> tCurrentVerRaw,
     targetVersion |-> TargetVersion(tCurrentVerRaw, latestVerNormalized),
     isManual |-> FALSE]

\* main.ts 175-227: the updates needed, one for the manual version or one
\* for each target whose version is not the latest
UpdatesNeeded(cfg, d, currentVerRaw, latestVerNormalized) ==
    IF cfg.type = "manual"
    THEN IF UpdateNeeded(currentVerRaw, latestVerNormalized)
         THEN <<[target |-> NoTarget, currentVerRaw |-> currentVerRaw,
                 targetVersion |-> TargetVersion(currentVerRaw, latestVerNormalized),
                 isManual |-> TRUE]>>
         ELSE <<>>
    ELSE SelectSeq([k \in 1..Len(cfg.targets) |->
                      TargetUpdate(cfg.targets[k],
                                   CurrentVerRaw(d[cfg.targets[k].file].content,
                                                 cfg.targets[k].path, cfg.type),
                                   latestVerNormalized)],
                   LAMBDA u : UpdateNeeded(u.currentVerRaw, latestVerNormalized))

\* main.ts 229-300: with updates needed, the releases of the update are
\* selected and analyzed, the branch and the title are named
SourceReleases ==
    IF config.source = "dockerhub" THEN <<local.latestRelease>> ELSE local.releases
Prepared(latestVerNormalized, updatesNeeded, relevantReleases) ==
    /\ local' = [local EXCEPT
            !.updatesNeeded = updatesNeeded,
            !.relevantReleases = relevantReleases,
            !.aiAssessment = config.apiKey /\ relevantReleases # <<>>,
            !.branchName = UpdateBranchName(config.repo, latestVerNormalized),
            !.prTitle = [kind |-> "update", name |-> DisplayName(config.repo),
                         from |-> normalizeVersion(local.currentVerRaw),
                         to |-> latestVerNormalized],
            !.i = 1]
    /\ pc' = IF config.dryRun THEN "dry" ELSE "config_name"
    /\ failed' = failed
Decided(latestVerNormalized, updatesNeeded) ==
    IF updatesNeeded = <<>>
    THEN Return /\ local' = local
    ELSE Prepared(latestVerNormalized, updatesNeeded,
                  getRelevantReleases(SourceReleases, updatesNeeded[1].currentVerRaw,
                                      config.maxReleases))

\* main.ts 170-300: the update is decided, the releases of the update are
\* selected and analyzed, the branch and the title are named
DecideUpdates ==
    /\ pc = "decide"
    /\ IF local.latestRelease.none
       THEN Return /\ local' = local
       ELSE IF config.type # "manual"
               /\ \E k \in 1..Len(config.targets) : ~disk[config.targets[k].file].exists
       THEN Fail("File not found") /\ local' = local
       ELSE Decided(normalizeVersion(local.latestRelease.tag_name),
                    UpdatesNeeded(config, disk, local.currentVerRaw,
                                  normalizeVersion(local.latestRelease.tag_name)))
    /\ UNCHANGED <<rev, utilVars, updaterVars, config, disk, remote, execs, prs, writes, shown>>

\* one update applied to the files: updateConfigVersion for the manual
\* version, setYamlValue for a target (which reads the file first)
ApplyUpdate(cfg, d, u, dryRun) ==
    IF u.isManual
    THEN updateConfigVersion(d[cfg.configFile].exists, d[cfg.configFile].content,
                             cfg.repo, u.targetVersion, dryRun)
    ELSE IF ~d[u.target.file].exists
    THEN [outcome |-> "ENOENT", wrote |-> FALSE, content |-> <<>>]
    ELSE setYamlValue("part_002", d[u.target.file].content, u.target.path,
                      u.targetVersion, cfg.type, dryRun)

UpdatedFile(cfg, u) == IF u.isManual THEN cfg.configFile ELSE u.target.file

\* the files after a call that returned r for the file f
Applied(st, f, r) ==
    [disk |-> IF r.wrote THEN [st.disk EXCEPT ![f] = Present(r.content)] ELSE st.disk,
     writes |-> IF r.wrote THEN Append(st.writes, f) ELSE st.writes,
     applied |-> IF Thrown(r) THEN st.applied ELSE st.applied + 1,
     thrown |-> IF Thrown(r) THEN r.outcome ELSE ""]

\* the updates applied one after the other until one throws
RECURSIVE ApplyAll(_, _, _, _)
ApplyAll(cfg, st, us, dryRun) ==
    IF us = <<>> \/ st.thrown # "" THEN st
    ELSE ApplyAll(cfg,
                  Applied(st, UpdatedFile(cfg, Head(us)),
                          ApplyUpdate(cfg, st.disk, Head(us), dryRun)),
                  Tail(us), dryRun)

\* the end of the update path of a dry run
DryRunDone(st) ==
    /\ disk' = st.disk
    /\ writes' = st.writes
    /\ shown' = shown \o <<"config user.name", "config user.email", "checkout -B">>
                 \o [k \in 1..st.applied |-> "add"]
                 \o (IF st.thrown = "" THEN <<"commit", "push", "checkout main">>
                     ELSE <<>>)
    /\ pc' = "done"
    /\ failed' = st.thrown

\* main.ts 302-337: the update path of a dry run
DryRunUpdate ==
    /\ pc = "dry"
    /\ DryRunDone(ApplyAll(config,
                           [disk |-> disk, writes |-> writes, applied |-> 0,
                            thrown |-> ""],
                           local.updatesNeeded, TRUE))
    /\ UNCHANGED <<rev, utilVars, updaterVars, config, remote, local, execs, prs>>

\* the git commands of run(), each at its place
ExecPcs ==
    {"config_name", "config_email", "checkout_branch", "add", "commit", "push",
     "checkout_main",
     "rm_config_name", "rm_config_email", "rm_checkout_branch", "rm_add",
     "rm_commit", "rm_push"}

GitCommand(at) ==
    CASE at \in {"config_name", "rm_config_name"} -> [cmd |-> "config user.name", arg |-> <<>>]
      [] at \in {"config_email", "rm_config_email"} -> [cmd |-> "config user.email", arg |-> <<>>]
      [] at \in {"checkout_branch", "rm_checkout_branch"} ->
            [cmd |-> "checkout -B", arg |-> local.branchName]
      [] at = "add" -> [cmd |-> "add", arg |-> UpdatedFile(config, local.updatesNeeded[local.i])]
      [] at = "rm_add" -> [cmd |-> "add", arg |-> config.configFile]
      [] at \in {"commit", "rm_commit"} -> [cmd |-> "commit -m", arg |-> local.prTitle]
      [] at \in {"push", "rm_push"} -> [cmd |-> "push origin --force", arg |-> local.branchName]
      [] at = "checkout_main" -> [cmd |-> "checkout", arg |-> <<"m", "a", "i", "n">>]

\* what follows a git command that succeeded
AfterExec(at) ==
    CASE at = "config_name" -> "config_email"
      [] at = "config_email" -> "checkout_branch"
      [] at = "checkout_branch" -> "mutate"
      [] at = "add" -> IF local.i < Len(local.updatesNeeded) THEN "mutate" ELSE "commit"
      [] at = "commit" -> "push"
      [] at = "push" -> "pr"
      [] at = "checkout_main" -> "done"
      [] at = "rm_config_name" -> "rm_config_email"
      [] at = "rm_config_email" -> "rm_checkout_branch"
      [] at = "rm_checkout_branch" -> "rm_remove"
      [] at = "rm_add" -> "rm_commit"
      [] at = "rm_commit" -> "rm_push"
      [] at = "rm_push" -> "rm_pr"

\* await exec.exec('git', [...]): the command runs; a command that exits
\* with an error rejects, and run() fails
GitExec(ok) ==
    /\ pc \in ExecPcs
    /\ execs' = Append(execs, GitCommand(pc))
    /\ IF ok
       THEN /\ pc' = AfterExec(pc)
            /\ failed' = failed
            /\ local' = IF pc = "add" /\ local.i < Len(local.updatesNeeded)
                        THEN [local EXCEPT !.i = local.i + 1] ELSE local
       ELSE Fail("git failed") /\ local' = local
    /\ UNCHANGED <<rev, utilVars, updaterVars, config, disk, remote, prs, writes, shown>>

\* main.ts 346-371: one update is written (the git add that follows is the
\* next step)
MutateTarget ==
    /\ pc = "mutate"
    /\ Called(UpdatedFile(config, local.updatesNeeded[local.i]),
              ApplyUpdate(config, disk, local.updatesNeeded[local.i], FALSE), "add")
    /\ UNCHANGED <<rev, utilVars, updaterVars, config, remote, local, execs, prs, shown>>

\* main.ts 115: the application is removed from the tracking config
RemoveApplication ==
    /\ pc = "rm_remove"
    /\ Called(config.configFile,
              removeApplicationFromConfig(disk[config.configFile].exists,
                  disk[config.configFile].content, config.repo, FALSE),
              "rm_add")
    /\ UNCHANGED <<rev, utilVars, updaterVars, config, remote, local, execs, prs, shown>>

\* ghService.createOrUpdatePullRequest(...): on the update path it is
\* followed by git checkout main, on the removal path by the return
CreatePullRequest(ok) ==
    /\ pc \in {"pr", "rm_pr"}
    /\ IF ok
       THEN /\ prs' = Append(prs, [title |-> local.prTitle, head |-> local.branchName,
                                   labelled |-> local.aiAssessment])
            /\ pc' = IF pc = "pr" THEN "checkout_main" ELSE "done"
            /\ failed' = failed
       ELSE Fail("pull request failed") /\ prs' = prs
    /\ UNCHANGED <<rev, utilVars, updaterVars, config, disk, remote, local, execs, writes, shown>>

RunNext ==
    \/ ReadCurrentVersion
    \/ RemoveDryRun
    \/ FetchReleases
    \/ DecideUpdates
    \/ DryRunUpdate
    \/ \E ok \in BOOLEAN : GitExec(ok)
    \/ MutateTarget
    \/ RemoveApplication
    \/ \E ok \in BOOLEAN : CreatePullRequest(ok)

SpecRun == RunInit /\ [][RunNext]_vars


(***************************************************************************)
(* Calls of generatePrBody.                                                *)
(***************************************************************************)
\* neither the file updater nor run() is running
Idle ==
    /\ rev = "part_002"
    /\ file = <<>>
    /\ path = <<>>
    /\ type = "helm"
    /\ calls = 0
    /\ last = NoCall
    /\ NoRun

Assessed(tag, url, date, risk, worryFree, summary, recommendations) ==
    [tag_name |-> tag, html_url |-> url, published_at |-> date, risk |-> risk,
     worryFree |-> worryFree, summary |-> summary, recommendations |-> recommendations]

\* three analysed releases: with a recommendation, with a recommendation
\* that is not shown (risk None) and without date, without recommendation
AssessedA ==
    Assessed(<<"v", "3">>, <<"h", "/", "3">>, <<"2", "0", "2", "4", "-", "0", "1", "-", "0", "2">>,
             "High", FALSE, <<"b", "r", "e", "a", "k", "s", SP, "t", "h", "e", SP, "a",
               "p", "i">>, <<"r", "e", "a", "d", SP, "n", "o", "t", "e", "s">>)
AssessedB ==
    Assessed(<<"v", "2">>, <<"h", "/", "2">>, <<>>, "None", TRUE, <<"f", "i", "x", "e", "s">>, <<"n", "o", "n", "e">>)
AssessedC ==
    Assessed(<<"v", "1">>, <<"h", "/", "1">>, <<"2", "0", "2", "4", "-", "0", "1", "-", "0", "2">>,
             "Low", TRUE, <<"s", "m", "a", "l", "l">>, <<>>)

AssessedD ==
    Assessed(<<"v", "0">>, <<"h", "/", "0">>, <<>>, "Medium", FALSE, <<"o", "l", "d">>, <<"p", "i", "n">>)

\* the lists of releases: the first releases, at most MaxSummaries, of
\* three orders of the four
MaxSummaries == 3
ReleaseOrders ==
    {<<AssessedA, AssessedB, AssessedC, AssessedD>>,
     <<AssessedB, AssessedA, AssessedD, AssessedC>>,
     <<AssessedC, AssessedA, AssessedB, AssessedD>>}
ReleaseLists ==
    {SubSeq(o, 1, n) : o \in ReleaseOrders, n \in 0..Min({MaxSummaries, 4})}

\* the fields of a release that relevantReleases holds
Plain(rel) ==
    [tag_name |-> rel.tag_name, html_url |-> rel.html_url, published_at |-> rel.published_at]

RiskLevels == <<"None", "Low", "Medium", "High">>

\* what analyzeRisks returns for assessments: the highest risk, and whether
\* every release is worry free
Assessment(assessments) ==
    [none |-> FALSE,
     overallRisk |-> RiskLevels[Max({1} \cup {i \in 1..4 :
                        \E k \in 1..Len(assessments) : assessments[k].risk = RiskLevels[i]})],
     overallWorryFree |-> \A k \in 1..Len(assessments) : assessments[k].worryFree,
     releases |-> assessments]

LogBuffers == {<<>>, <<"r", "u", "n", SP, "l", "o", "g">>}

\* the arguments of a call for a list of releases, with the assessment of
\* the list or with none
BodyArgsOf(l) ==
    {[fn |-> "generatePrBody", displayName |-> <<"x">>, aiAssessment |-> ai,
      relevantReleases |-> [k \in 1..Len(l) |-> Plain(l[k])], logBuffer |-> lb] :
        ai \in {NoAssessment, Assessment(l)}, lb \in LogBuffers}
BodyArgs == UNION {BodyArgsOf(l) : l \in ReleaseLists}

\* the candidates of the loop, in the order in which it builds them
DescriptionsOf(a) == IF a.aiAssessment.none THEN 0 ELSE Len(a.aiAssessment.releases)
Candidate(a, includeLogs, k) ==
    PrBody(a.displayName, a.aiAssessment, a.relevantReleases, a.logBuffer, includeLogs, k)
Candidates(a) ==
    <<Candidate(a, TRUE, DescriptionsOf(a))>>
    \o [i \in 1..(DescriptionsOf(a) + 1) |-> Candidate(a, FALSE, DescriptionsOf(a) + 1 - i)]

\* the size limits of the calls: small ones, around the length of the
\* truncation marker and around 50, and the limits each candidate just
\* fits and just misses
SmallLimits == {0, 20, 21, 49, 50, 51, 80}
Limits(a) ==
    SmallLimits \cup {Len(Candidates(a)[i]) - d : i \in 1..Len(Candidates(a)), d \in {0, 1}}

BodyInit ==
    /\ Idle
    /\ args \in BodyArgs
    /\ result = <<>>

\* a call of generatePrBody with the arguments and a size limit; result
\* holds what the call returned, after what the call before it returned
GeneratePrBody(maxBodySize) ==
    /\ args.fn = "generatePrBody"
    /\ result' = Append(IF result = <<>> THEN <<>> ELSE <<result[Len(result)]>>,
                        [maxBodySize |-> maxBodySize,
                         body |-> generatePrBody(args.displayName, args.aiAssessment,
                                                 args.relevantReleases, args.logBuffer,
                                                 maxBodySize)])
    /\ UNCHANGED <<rev, updaterVars, runVars, args>>

BodyNext == \E m \in Limits(args) : GeneratePrBody(m)

SpecBody == BodyInit /\ [][BodyNext]_vars

(***************************************************************************)
(* Calls of normalizeVersion, isPrerelease and compareVersions.            *)
(***************************************************************************)
\* the versions compared: cores of two and three components, one with a
\* component that is no number, and prerelease parts of numeric and other
\* segments
Versions ==
    {<<"1", ".", "2">>,
     <<"v", "1", ".", "2", ".", "0">>,
     <<"1", ".", "2", ".", "1">>,
     <<"1", ".", "1", "0">>,
     <<"1", ".", "x", ".", "2">>,
     <<"1", ".", "3", ".", "1">>,
     <<"1", ".", "2", ".", "9">>,
     <<"1", ".", "2", "-", "r", "c">>,
     <<"1", ".", "2", "-", "r", "c", ".", "1">>,
     <<"1", ".", "2", "-", "r", "c", ".", "1", "0">>,
     <<"1", ".", "2", "-", "r", "c", ".", "2">>,
     <<"1", ".", "2", "-", "2", "0">>,
     <<"1", ".", "2", "-", "1", "e", "1">>,
     <<"1", ".", "2", "-", "b", "e", "t", "a">>}

\* the strings normalized: with and without `<digits>.<digits>`, with one
\* and with several leading `v`, with an image prefix
RawVersions ==
    {<<>>,
     <<"v">>,
     <<"v", "v">>,
     <<"v", "v", "x">>,
     <<"v", "v", "1">>,
     <<"x">>,
     <<"l", "a", "t", "e", "s", "t">>,
     <<"v", "1">>,
     <<"v", "1", ".", "2">>,
     <<"v", "v", "1", ".", "2">>,
     <<"b", ":", "1", ".", "2", ".", "9">>,
     <<"r", ":", "5", "/", "b", ":", "1", ".", "2">>,
     <<"1", ".", "2", "-", "r", "c", ".", "1">>,
     <<"v", "1", ".", "2", NL, "v">>,
     <<"1", ".", "x", ".", "2">>}

\* the tags asked for a prerelease marker: each marker, in either case, as a
\* segment, as the beginning of a longer token, and outside `-<marker>`
Tags ==
    {<<"1", ".", "2", ".", "0">>,
     <<"v", "1", ".", "2", ".", "0", "-", "r", "c", ".", "1">>,
     <<"1", ".", "2", ".", "0", "-", "R", "C", "1">>,
     <<"1", ".", "2", ".", "0", "-", "b", "e", "t", "a">>,
     <<"1", ".", "2", ".", "0", "-", "A", "l", "p", "h", "a", ".", "2">>,
     <<"1", ".", "2", ".", "0", "-", "n", "e", "x", "t">>,
     <<"1", ".", "2", ".", "0", "-", "c", "a", "n", "a", "r", "y", ".",
       "3">>,
     <<"1", ".", "2", ".", "0", "-", "p", "r", "e">>,
     <<"1", ".", "2", ".", "0", "-", "p", "r", "e", "v", "i", "e", "w">>,
     <<"1", ".", "2", ".", "0", "-", "r", "c", "f", "o", "o">>,
     <<"1", ".", "2", ".", "0", "-", "x", ".", "r", "c">>,
     <<"1", ".", "2", ".", "0", "-", "x", "r", "c">>,
     <<"r", "c", "-", "1", ".", "2", ".", "0">>,
     <<"1", ".", "2", ".", "0", "-", "x", "-", "r", "c">>,
     <<"1", ".", "2", ".", "0", "-", "x", "-", "p", "r", "e", "1">>,
     <<"p", "r", "e", "r", "e", "l", "e", "a", "s", "e">>,
     <<"v", "0", ".", "1", "0", "8", ".", "0", "-", "b", ".", "7", "9">>,
     <<"v", "1", ".", "2", ".", "0", "-", "a", "n", "y", "t", "h", "i", "n", "g">>}

VersionArgs ==
    {[fn |-> "compareVersions", a |-> a, b |-> b, c |-> c] :
        a \in Versions, b \in Versions, c \in Versions}
    \cup {[fn |-> "normalizeVersion", v |-> v] : v \in RawVersions}
    \cup {[fn |-> "isPrerelease", v |-> v] : v \in Tags}

VersionsInit ==
    /\ Idle
    /\ args \in VersionArgs
    /\ result = <<>>

\* the calls compareVersions(a, b), compareVersions(b, c), compareVersions(a, c)
CompareVersions ==
    /\ args.fn = "compareVersions"
    /\ result = <<>>
    /\ result' = [ab |-> compareVersions(args.a, args.b),
                  bc |-> compareVersions(args.b, args.c),
                  ac |-> compareVersions(args.a, args.c)]
    /\ UNCHANGED <<rev, updaterVars, runVars, args>>

\* the calls normalizeVersion(v) and normalizeVersion(normalizeVersion(v))
NormalizeVersion ==
    /\ args.fn = "normalizeVersion"
    /\ result = <<>>
    /\ result' = [once |-> normalizeVersion(args.v),
                  twice |-> normalizeVersion(normalizeVersion(args.v))]
    /\ UNCHANGED <<rev, updaterVars, runVars, args>>

\* the call isPrerelease(v)
IsPrerelease ==
    /\ args.fn = "isPrerelease"
    /\ result = <<>>
    /\ result' = [value |-> isPrerelease(args.v)]
    /\ UNCHANGED <<rev, updaterVars, runVars, args>>

VersionsNext == CompareVersions \/ NormalizeVersion \/ IsPrerelease

SpecVersions == VersionsInit /\ [][VersionsNext]_vars

(***************************************************************************)
(* Calls of getRelevantReleases.                                           *)
(***************************************************************************)
\* the tags of a repository, the newest first; 1.10.1 is published twice,
\* with and without the `v`
PublishedTags ==
    <<<<"v", "1", ".", "1", "1", ".", "0">>,
      <<"v", "1", ".", "1", "0", ".", "2">>,
      <<"v", "1", ".", "1", "0", ".", "1">>,
      <<"1", ".", "1", "0", ".", "1">>,
      <<"v", "1", ".", "1", "0", ".", "0">>>>

\* the lists of releases a call is given: the releases of any of the tags
\* (a release may be deleted or not be published), the newest first
WindowLists ==
    {Pick([k \in 1..Len(PublishedTags) |-> Release(PublishedTags[k])], S) :
        S \in SUBSET (1..Len(PublishedTags))}

\* the current versions: a published one with and without the `v`, the
\* oldest one, one that is no release, none, one that is no version
CurrentVersions ==
    {<<"v", "1", ".", "1", "0", ".", "1">>,
     <<"1", ".", "1", "0", ".", "1">>,
     <<"v", "1", ".", "1", "0", ".", "0">>,
     <<"v", "1", ".", "1", "0", ".", "3">>,
     <<>>,
     <<"l", "a", "t", "e", "s", "t">>}

\* the values of maxReleases: Infinity (written -1) and the counts 0..3
MaxReleasesValues == {-1, 0, 1, 2, 3}

WindowArgs ==
    [fn : {"getRelevantReleases"}, releases : WindowLists,
     currentVersion : CurrentVersions, maxReleases : MaxReleasesValues]

WindowInit ==
    /\ Idle
    /\ args \in WindowArgs
    /\ result = <<>>

\* the call getRelevantReleases(releases, currentVersion, maxReleases)
GetRelevantReleases ==
    /\ args.fn = "getRelevantReleases"
    /\ result = <<>>
    /\ result' = [value |-> getRelevantReleases(args.releases, args.currentVersion,
                                                args.maxReleases)]
    /\ UNCHANGED <<rev, updaterVars, runVars, args>>

WindowNext == GetRelevantReleases

SpecWindow == WindowInit /\ [][WindowNext]_vars

(***************************************************************************)
(* Calls of applyVersionLag.                                               *)
(***************************************************************************)
\* the tags of a repository, the newest first
LagTags ==
    <<<<"v", "2", ".", "0", ".", "0">>,
      <<"v", "1", ".", "1", "1", ".", "0">>,
      <<"v", "1", ".", "1", "0", ".", "2">>,
      <<"v", "1", ".", "1", "0", ".", "1">>,
      <<"v", "1", ".", "1", "0", ".", "0">>,
      <<"v", "1", ".", "9", ".", "3">>,
      <<"v", "1", ".", "9", ".", "2">>>>

ReleasesOf(tags) == [k \in 1..Len(tags) |-> Release(tags[k])]

\* the lists filtered: the releases of any of the tags, and two lists in
\* which a patch of an older line was published after a newer line
LagLists ==
    {Pick(ReleasesOf(LagTags), S) : S \in SUBSET (1..Len(LagTags))}
    \cup {ReleasesOf(<<LagTags[2], LagTags[6], LagTags[3], LagTags[7]>>),
          ReleasesOf(<<LagTags[6], LagTags[1], LagTags[3], LagTags[4], LagTags[7]>>)}

LagCounts == 0..4
Granularities == {"major", "minor", "patch"}

LagArgs ==
    [fn : {"applyVersionLag"}, releases : LagLists, lagCount : LagCounts,
     granularity : Granularities]

LagInit ==
    /\ Idle
    /\ args \in LagArgs
    /\ result = <<>>

\* the call applyVersionLag(releases, lagCount, granularity)
ApplyVersionLag ==
    /\ args.fn = "applyVersionLag"
    /\ result = <<>>
    /\ result' = [value |-> applyVersionLag(args.releases, args.lagCount, args.granularity)]
    /\ UNCHANGED <<rev, updaterVars, runVars, args>>

LagNext == ApplyVersionLag

SpecLag == LagInit /\ [][LagNext]_vars

(***************************************************************************)
(* Calls of DockerHubService.fetchLatestTag.                               *)
(***************************************************************************)
T1361 == <<"1", ".", "3", "6", ".", "1">>
T1370 == <<"1", ".", "3", "7", ".", "0">>
TLatest == <<"l", "a", "t", "e", "s", "t">>

\* the sequences of distinct elements of S
Arrangements(S) ==
    {q \in UNION {[1..n -> S] : n \in 0..Cardinality(S)} :
        \A i \in DOMAIN q, j \in DOMAIN q : i # j => q[i] # q[j]}

\* tags updated more recently than the ones a call is about: n tags that
\* are no version, or n older versions
FillerTags == {<<"e", "d", "g", "e">>, <<"1", ".", "0", ".", "0">>}
FillerCounts == {0, PageSize - 2, PageSize - 1, PageSize, PageSize + 1}

\* the tags of a repository, the most recently updated first
Registries ==
    {ReleasesOf([k \in 1..n |-> f] \o q) :
        n \in FillerCounts, f \in FillerTags, q \in Arrangements({T1361, T1370, TLatest})}

TagArgs == [fn : {"fetchLatestTag"}, tags : Registries]

TagsInit ==
    /\ Idle
    /\ args \in TagArgs
    /\ result = <<>>

\* the call fetchLatestTag(repo) for a repository with the tags
FetchLatestTag ==
    /\ args.fn = "fetchLatestTag"
    /\ result = <<>>
    /\ result' = [value |-> fetchLatestTag(FirstPage(args.tags))]
    /\ UNCHANGED <<rev, updaterVars, runVars, args>>

TagsNext == FetchLatestTag

SpecTags == TagsInit /\ [][TagsNext]_vars

(***************************************************************************)
(* Vocabulary of the properties.                                           *)
(***************************************************************************)
BeforeLines == DocLines(last.before)
AfterLines == DocLines(file)

\* the last call was a setYamlValue that wrote the file
SetWrote == last.op = "set" /\ last.wrote

\* the lines of a document that hold the key k
KeyLines(text, k) ==
    {n \in 1..Len(DocInfo(text)) :
        DocInfo(text)[n].kind = "entry" /\ DocInfo(text)[n].key = k}

\* the line of the entry the dotted path addresses (0: it addresses none)
AddressedLine(text, p) == Resolve(text, p).ln

\* the line on which the pattern of the last call found "key:"
LocatedLine ==
    LET key == TargetKey(path)
        searchVal == IF last.ret.null THEN <<>> ELSE last.ret.s
        pat == IF last.outcome = "exact" THEN RevExactRegex(rev, key, searchVal)
               ELSE FallbackRegex(key)
        m == Exec(pat, last.before)
        colon == m.caps[1].s - 1 + Len(TrimRight(Group(last.before, m, 1)))
    IN  1 + Cardinality({i \in 1..colon : last.before[i] = NL})

\* a key line cut in three: what is before the value, the value as written
\* (with its quotes), and what follows it
ValueSpan(l) ==
    LET val == LineInfo(l).val
        v == TrimLeft(val)
        preLen == Len(l) - Len(v)
        rawLen == IF Len(v) = 0 \/ v[1] = "#" THEN 0
                  ELSE IF v[1] \in {DQ, SQ}
                  THEN LET closes == {i \in 2..Len(v) : v[i] = v[1]}
                       IN  IF closes = {} THEN Len(v) ELSE Min(closes)
                  ELSE Len(TrimRight(Sub(v, 1, PlainEnd(v))))
    IN  [pre |-> Sub(l, 1, preLen),
         raw |-> Sub(v, 1, rawLen),
         post |-> Sub(v, rawLen + 1, Len(v))]

\* what is before, and after, the last colon of a value
LastColon(s) == Max({i \in 1..Len(s) : s[i] = ":"})
BeforeLastColon(s) == Sub(s, 1, LastColon(s) - 1)

\* every line but line n is the same before and after the last call
OnlyLineChanged(n) ==
    /\ Len(AfterLines) = Len(BeforeLines)
    /\ \A j \in 1..Len(BeforeLines) : j # n => AfterLines[j] = BeforeLines[j]

(***************************************************************************)
(* Properties.                                                             *)
(***************************************************************************)
\* The model of yaml.load covers every document a behaviour reaches.
ModelCoversFile == YamlUnderstood(file, Keys)

\* C1: in kubernetes mode, on a document whose only line with the target key
\* is `key: <name>:<old><trailing>` and whose value is read back as
\* <name>:<old>, setYamlValue rewrites that line to exactly
\* `key: <name>:<new><trailing>`: prefix and trailing comment are kept and
\* no `$3` appears.
C1_CompositeLineRewritten ==
    LET ln == AddressedLine(last.before, path)
        span == ValueSpan(BeforeLines[ln])
    IN  (/\ SetWrote
         /\ type = "kubernetes"
         /\ ln > 0
         /\ KeyLines(last.before, TargetKey(path)) = {ln}
         /\ ~last.ret.null
         /\ span.raw = last.ret.s
         /\ Cardinality({i \in 1..Len(span.raw) : span.raw[i] = ":"}) = 1)
        => /\ Len(AfterLines) = Len(BeforeLines)
           /\ AfterLines[ln] = span.pre \o BeforeLastColon(span.raw) \o <<":">>
                               \o last.newValue \o span.post

\* C1, for the later revision alone (it holds there)
C1_GroupedRevision == rev = "part_002" => C1_CompositeLineRewritten

\* C2: in kubernetes mode a value with colons keeps everything before its
\* LAST colon: r:5/b:1.3 set to 2.0.1 is written as r:5/b:2.0.1.
C2_PrefixBeforeLastColonKept ==
    LET ln == LocatedLine
        old == last.ret.s
    IN  (/\ SetWrote
         /\ rev = "part_002"
         /\ type = "kubernetes"
         /\ ~last.ret.null
         /\ Includes(old, ":")
         /\ Len(AfterLines) = Len(BeforeLines)
         /\ ValueSpan(BeforeLines[ln]).raw = old)
        => ValueSpan(AfterLines[ln]).raw
             = BeforeLastColon(old) \o <<":">> \o last.newValue

\* C3: after a successful setYamlValue every line other than the located
\* `key:` line is as it was.
C3_OtherLinesUntouched == SetWrote => OnlyLineChanged(LocatedLine)

\* C4: when the leaf key of the path is on more than one line, a successful
\* setYamlValue changes no line but the one the dotted path addresses.
C4_AddressedLineOnly ==
    (/\ SetWrote
     /\ rev = "part_002"
     /\ Cardinality(KeyLines(last.before, TargetKey(path))) > 1
     /\ AddressedLine(last.before, path) > 0
     /\ ~last.ret.null
     /\ ValueSpan(BeforeLines[AddressedLine(last.before, path)]).raw = last.ret.s)
    => OnlyLineChanged(AddressedLine(last.before, path))

\* C5: after a successful setYamlValue the located line is what was before
\* the value, the replacement value, and what was after the value.
C5_OnlyValueSpanReplaced ==
    LET ln == LocatedLine
        span == ValueSpan(BeforeLines[ln])
    IN  (/\ SetWrote
         /\ rev = "part_002"
         /\ Len(span.raw) > 0)
        => /\ ln <= Len(AfterLines)
           /\ AfterLines[ln] = span.pre
                               \o ReplaceVal(last.ret, last.newValue, type)
                               \o span.post

\* C6: when neither pattern locates the key, setYamlValue fails with
\* "Could not find key" and the file is as it was.
C6_NotFoundLeavesFile ==
    LET key == TargetKey(path)
        searchVal == IF last.ret.null THEN <<>> ELSE last.ret.s
    IN  (/\ last.op = "set"
         /\ ~last.dryRun
         /\ ~Test(RevExactRegex(rev, key, searchVal), last.before)
         /\ ~Test(FallbackRegex(key), last.before))
        => /\ last.outcome = "Could not find key"
           /\ ~last.wrote
           /\ file = last.before
C6_Witness ==
    /\ last.op = "set"
    /\ last.outcome = "Could not find key"
    /\ Len(file) > 0

\* C8: a second setYamlValue with the same new value leaves the document
\* as the first one left it.
C8_Idempotent ==
    [][(/\ SetWrote
        /\ rev = "part_002"
        /\ KeyLines(last.before, TargetKey(path)) = {AddressedLine(last.before, path)}
        /\ Len(ValueSpan(BeforeLines[AddressedLine(last.before, path)]).raw) > 0
        /\ last'.op = "set"
        /\ last'.wrote
        /\ last'.newValue = last.newValue)
       => file' = file]_vars

\* C9: for a key present exactly once, getYamlValue after a successful
\* setYamlValue with new value X returns X.
C9_RoundTrip ==
    (/\ last.op = "get"
     /\ last.outcome \in {"exact", "fallback"}
     /\ rev = "part_002"
     /\ type = "helm"
     /\ Cardinality(KeyLines(file, TargetKey(path))) = 1
     /\ AddressedLine(file, path) > 0
     /\ ValueSpan(AfterLines[AddressedLine(file, path)]).raw = last.newValue)
    => last.ret = Str(last.newValue)

(***************************************************************************)
(* Vocabulary of the properties of the config file.                        *)
(***************************************************************************)
\* the line opens a list item at indentation n
OpensItemAt(l, n) ==
    LeadingSpaces(l) = n /\ Len(l) >= n + 2 /\ l[n + 1] = "-" /\ l[n + 2] = SP

IsBlank(l) == Len(Trim(l)) = 0

\* the indentation of the outermost list of the document
ListIndent(lines) ==
    Min({LeadingSpaces(lines[i]) : i \in {j \in 1..Len(lines) :
            OpensItemAt(lines[j], LeadingSpaces(lines[j]))}})

\* the lines that open an application block
BlockStarts(lines) ==
    {i \in 1..Len(lines) : OpensItemAt(lines[i], ListIndent(lines))}

\* the last line of the block opened on line i: the last line that is not
\* blank before the next block or the next line of an outer level
BlockLast(lines, i) ==
    LET n == ListIndent(lines)
        stops == {j \in (i + 1)..Len(lines) :
                    \/ OpensItemAt(lines[j], n)
                    \/ ~IsBlank(lines[j]) /\ LeadingSpaces(lines[j]) < n}
        stop == IF stops = {} THEN Len(lines) + 1 ELSE Min(stops)
    IN  Max({j \in i..(stop - 1) : ~IsBlank(lines[j])})

\* the text of the block opened on line i
BlockText(lines, i) == Sub(lines, i, BlockLast(lines, i))

\* the line sets the key `repo` to the repository, quoted or not
IsRepoEntry(l, repo) ==
    LET ind == LeadingSpaces(l)
        body == IF OpensItemAt(l, ind) THEN TrimLeft(Sub(l, ind + 2, Len(l)))
                ELSE Sub(l, ind + 1, Len(l))
    IN  TrimRight(body) \in {Line(kRepo, v, <<>>) :
                                v \in {repo, Quoted(repo), <<DQ>> \o repo \o <<DQ>>}}

\* the blocks of a document that are not the application of the repository
OtherBlocks(text, repo) ==
    LET lines == DocLines(text)
    IN  {BlockText(lines, i) : i \in {j \in BlockStarts(lines) :
            \A n \in 1..Len(BlockText(lines, j)) :
                ~IsRepoEntry(BlockText(lines, j)[n], repo)}}

AllBlocks(text) ==
    LET lines == DocLines(text)
    IN  {BlockText(lines, i) : i \in BlockStarts(lines)}

\* the last call was a removeApplicationFromConfig that wrote the file
RemoveWrote == last.op = "remove" /\ last.wrote

\* C10: after removeApplicationFromConfig has removed the block of one
\* repository, every other application block of the document, with the
\* blank lines inside it, is in the document with the text it had.
C10_SiblingBlocksKept ==
    RemoveWrote
    => \A b \in OtherBlocks(last.before, last.repo) : b \in AllBlocks(file)

(***************************************************************************)
(* Properties of run().                                                    *)
(***************************************************************************)
\* C7: in a dry run no file is written, no git command is executed and no
\* pull request is created or updated, on the update path and on the
\* removal path; the calls of setYamlValue, removeApplicationFromConfig and
\* updateConfigVersion made with dryRun = true write nothing.
C7_DryRunHasNoEffect ==
    config.dryRun => writes = <<>> /\ execs = <<>> /\ prs = <<>>

\* a dry run has gone through the update path, or through the removal path
C7_Witness ==
    /\ config.dryRun
    /\ pc = "done"
    /\ failed = ""
    /\ local.updatesNeeded # <<>>
    /\ "checkout main" \in {shown[k] : k \in 1..Len(shown)}

(***************************************************************************)
(* Properties of the line range removeApplicationFromConfig deletes.       *)
(***************************************************************************)
\* the last call was a removeApplicationFromConfig, not a dry run, on a
\* document in which step 1 finds the line of the repository
RemoveFoundRepoLine ==
    /\ last.op = "remove"
    /\ ~last.dryRun
    /\ RepoLineIndex(DocLines(last.before), last.repo) > 0

\* the range [start, end) of lines deleted from a document: start is a
\* list-item marker line less indented than the repo line, and the repo
\* line is inside the range
EnclosingItemRange(lines, repoLine, start, end) ==
    /\ start > 0
    /\ Test(ItemStartRegex, lines[start])
    /\ Len(ItemIndent(lines[start])) < LeadingSpaces(lines[repoLine])
    /\ start <= repoLine
    /\ repoLine < end

RemovedRangeEncloses(lines, repoLine, start) ==
    EnclosingItemRange(lines, repoLine, start,
                       IF start > 0 THEN BlockEnd(lines, start) ELSE 0)

\* C11: whenever removeApplicationFromConfig finds the line `repo: R`, the
\* deleted range [start, end) starts at a list-item marker line that is
\* less indented than the repo line, contains the repo line, and the
\* written document has no line `repo: R` left; also when a nested list
\* stands between the marker of the application and the repo line.
C11_RemovedRangeIsEnclosingItem ==
    RemoveFoundRepoLine
    => /\ RemovedRangeEncloses(DocLines(last.before),
                               RepoLineIndex(DocLines(last.before), last.repo),
                               BlockStart(DocLines(last.before),
                                          RepoLineIndex(DocLines(last.before), last.repo)))
       /\ last.wrote
       /\ RepoLineIndex(DocLines(file), last.repo) = 0


(***************************************************************************)
(* Application blocks whose first key is `repo`.                           *)
(***************************************************************************)
\* the document has an application block opened by `- repo: R`
RepoIsFirstKey(lines, repo) ==
    \E i \in BlockStarts(lines) : IsRepoEntry(lines[i], repo)

\* the repositories that have an entry in a document
ReposOf(lines) ==
    {r \in Repos : \E i \in 1..Len(lines) : IsRepoEntry(lines[i], r)}

\* the line sets the key `version` to the value
IsVersionEntry(l, v) ==
    Trim(l) = <<"v", "e", "r", "s", "i", "o", "n", ":", SP>> \o v

\* the block of the repository holds the line `version: V`
BlockHasVersion(lines, repo, v) ==
    \E i \in BlockStarts(lines) :
        /\ \E n \in 1..Len(BlockText(lines, i)) : IsRepoEntry(BlockText(lines, i)[n], repo)
        /\ \E n \in 1..Len(BlockText(lines, i)) : IsVersionEntry(BlockText(lines, i)[n], v)

\* the last call, not a dry run, was for a repository whose block is opened
\* by `- repo: R`
CalledOnRepoFirstBlock(op) ==
    /\ last.op = op
    /\ ~last.dryRun
    /\ RepoIsFirstKey(DocLines(last.before), last.repo)

\* C12: when `repo:` is the first key of the list item (`- repo: 'R'`),
\* removeApplicationFromConfig deletes the block of R and leaves the other
\* application, and updateConfigVersion writes `version: V` inside the
\* block of R.
C12_RepoFirstKeyLocated ==
    /\ CalledOnRepoFirstBlock("remove")
       => ReposOf(DocLines(file)) = ReposOf(DocLines(last.before)) \ {last.repo}
    /\ CalledOnRepoFirstBlock("update")
       => /\ last.outcome = "updated"
          /\ BlockHasVersion(DocLines(file), last.repo, last.newValue)


(***************************************************************************)
(* Removal of a repository the config file does not hold.                  *)
(***************************************************************************)
\* the last call was a removeApplicationFromConfig, not a dry run, on an
\* existing document in which no line matches `repo: R`
RemoveFoundNoRepoLine ==
    /\ last.op = "remove"
    /\ ~last.dryRun
    /\ RepoLineIndex(DocLines(last.before), last.repo) = 0

\* C13: when no line of the config file matches `repo: R` (quoted or not),
\* removeApplicationFromConfig raises no error and performs no write: the
\* call returns after the log and the document is what it was. A removal
\* that follows a removal which deleted the repo line is such a call.
C13_NotFoundIsNoOp ==
    RemoveFoundNoRepoLine
    => /\ ~Thrown(last)
       /\ last.outcome = "no application"
       /\ ~last.wrote
       /\ file = last.before

\* the second call is a removal of o/y that finds no repo line of o/y in a
\* document that still holds the repo line of o/x
C13_Witness ==
    /\ calls = 2
    /\ RemoveFoundNoRepoLine
    /\ last.repo = RepoY
    /\ RepoLineIndex(DocLines(last.before), RepoX) > 0
    /\ file = last.before


(***************************************************************************)
(* Properties of generatePrBody.                                           *)
(***************************************************************************)
\* C14: for every input and every size limit, limits below 50 and below
\* the length of the truncation marker included, the text generatePrBody
\* returns is at most maxBodySize long.
C14_BodyWithinLimit ==
    \A i \in 1..Len(result) : Len(result[i].body) <= result[i].maxBodySize


\* the releases the body lists: those of the assessment, or the relevant
\* releases when there is no assessment
Listed(a) == IF a.aiAssessment.none THEN a.relevantReleases ELSE a.aiAssessment.releases

\* the body holds the block of the execution log
HasLogBlock(body) == IncludesStr(body, LogOpen)

\* the body holds the description of the k-th release of the assessment
KeepsDescription(a, body, k) ==
    IncludesStr(body, RiskLine(a.aiAssessment.releases[k])
                      \o Description(a.aiAssessment.releases[k]))

\* the candidates that fit a size limit, by their place in the order
Fitting(cands, maxBodySize) == {i \in 1..Len(cands) : Len(cands[i]) <= maxBodySize}

\* the first candidate that fits, or the hard truncation of the last one
FirstThatFits(cands, maxBodySize) ==
    IF Fitting(cands, maxBodySize) # {} THEN cands[Min(Fitting(cands, maxBodySize))]
    ELSE Truncated(cands[Len(cands)], maxBodySize)

\* what C15 says of the body returned for a size limit
DegradedInOrder(a, body, maxBodySize) ==
    /\ body = FirstThatFits(Candidates(a), maxBodySize)
    /\ (\E k \in 1..DescriptionsOf(a) : ~KeepsDescription(a, body, k))
       => ~HasLogBlock(body)
    /\ \A k \in 2..DescriptionsOf(a) :
          KeepsDescription(a, body, k) => KeepsDescription(a, body, k - 1)
    /\ Fitting(Candidates(a), maxBodySize) # {}
       => \A k \in 1..Len(Listed(a)) : IncludesStr(body, LinkLine(Listed(a)[k]))

\* C15: generatePrBody returns the first candidate that fits, in the order
\* (1) full body with the log, (2) no log and every description, (3) no log
\* and the descriptions of the first k releases, k = n-1 down to 0, (4) hard
\* truncation. So a body that omits a description holds no log block, the
\* releases that keep their description form a prefix of the list, and a
\* body that is not truncated holds the link line of every release.
C15_DegradesInFixedOrder ==
    \A i \in 1..Len(result) : DegradedInOrder(args, result[i].body, result[i].maxBodySize)

\* one call has kept the description of the first release and dropped the
\* one of the second, the other call has truncated
C15_Witness ==
    /\ Len(result) = 2
    /\ DescriptionsOf(args) >= 2
    /\ KeepsDescription(args, result[1].body, 1)
    /\ ~KeepsDescription(args, result[1].body, 2)
    /\ Fitting(Candidates(args), result[2].maxBodySize) = {}
    /\ result[2].maxBodySize > 50

\* C16: for fixed inputs and two size limits s1 < s2, the body for s1 is
\* not longer than the body for s2, and when the body for s2 holds no log
\* block the body for s1 holds none.
C16_DegradesMonotonically ==
    \A i, j \in 1..Len(result) :
        result[i].maxBodySize < result[j].maxBodySize
        => /\ Len(result[i].body) <= Len(result[j].body)
           /\ ~HasLogBlock(result[j].body) => ~HasLogBlock(result[i].body)

\* two calls, the one with the smaller limit has lost descriptions that the
\* one with the larger limit, which has lost the log, still holds
C16_Witness ==
    /\ Len(result) = 2
    /\ result[1].maxBodySize < result[2].maxBodySize
    /\ Len(result[1].body) < Len(result[2].body)
    /\ ~HasLogBlock(result[2].body)
    /\ Len(args.logBuffer) > 0
    /\ DescriptionsOf(args) >= 2
    /\ KeepsDescription(args, result[2].body, 2)
    /\ ~KeepsDescription(args, result[1].body, 2)


(***************************************************************************)
(* Properties of compareVersions.                                          *)
(***************************************************************************)
\* the three versions have been compared
Compared == args.fn = "compareVersions" /\ result # <<>>

\* a string normalizeVersion returns as it is
IsNormalized(v) == normalizeVersion(v) = v

\* C17: for any three normalized versions a, b, c, versions with a core
\* component that is no number and versions with a prerelease part included,
\* compareVersions(a, b) = 1 and compareVersions(b, c) = 1 imply
\* compareVersions(a, c) = 1.
C17_Transitive ==
    (/\ Compared
     /\ IsNormalized(args.a) /\ IsNormalized(args.b) /\ IsNormalized(args.c)
     /\ result.ab = 1
     /\ result.bc = 1)
    => result.ac = 1


\* the reference comparator: a version is a core of integer components and a
\* prerelease part of segments of letters and digits
Letters == {Lower[i] : i \in 1..26} \cup {Upper[i] : i \in 1..26}
IsToken(seg) == Len(seg) > 0 /\ \A i \in 1..Len(seg) : seg[i] \in Digits \cup Letters
InReferenceDomain(norm) ==
    /\ \A i \in 1..Len(Split(VerOf(norm), ".")) : AllDigits(Split(VerOf(norm), ".")[i])
    /\ Len(PreOf(norm)) > 0
       => \A i \in 1..Len(Split(PreOf(norm), ".")) : IsToken(Split(PreOf(norm), ".")[i])
    /\ IndexOf(norm, "-") > 0 => Len(PreOf(norm)) > 0

Sign(x, y) == IF x > y THEN 1 ELSE IF x < y THEN -1 ELSE 0

\* the integer component i of a core, 0 when the core has none
Component(core, i) == IF i <= Len(core) THEN ParseInt(core[i]) ELSE 0

\* core parts, component by component
ReferenceCore(core1, core2) ==
    LET differ == {i \in 1..Max({Len(core1), Len(core2)}) :
                     Component(core1, i) # Component(core2, i)}
    IN  IF differ = {} THEN 0
        ELSE Sign(Component(core1, Min(differ)), Component(core2, Min(differ)))

\* two segments: numeric ones by value, a numeric one before any other,
\* the others lexicographically
ReferenceSegment(s1, s2) ==
    IF AllDigits(s1) /\ AllDigits(s2) THEN Sign(ParseInt(s1), ParseInt(s2))
    ELSE IF AllDigits(s1) THEN -1
    ELSE IF AllDigits(s2) THEN 1
    ELSE IF StringGreater(s1, s2) THEN 1
    ELSE IF StringGreater(s2, s1) THEN -1
    ELSE 0

\* prerelease parts, segment by segment; the one that runs out first is lesser
ReferencePre(segs1, segs2) ==
    LET differ == {i \in 1..Min({Len(segs1), Len(segs2)}) :
                     ReferenceSegment(segs1[i], segs2[i]) # 0}
    IN  IF differ # {} THEN ReferenceSegment(segs1[Min(differ)], segs2[Min(differ)])
        ELSE Sign(Len(segs1), Len(segs2))

Reference(norm1, norm2) ==
    IF ReferenceCore(Split(VerOf(norm1), "."), Split(VerOf(norm2), ".")) # 0
    THEN ReferenceCore(Split(VerOf(norm1), "."), Split(VerOf(norm2), "."))
    ELSE IF Len(PreOf(norm1)) = 0 \/ Len(PreOf(norm2)) = 0
    THEN Sign(IF Len(PreOf(norm1)) = 0 THEN 1 ELSE 0, IF Len(PreOf(norm2)) = 0 THEN 1 ELSE 0)
    ELSE ReferencePre(Split(PreOf(norm1), "."), Split(PreOf(norm2), "."))

\* a and b are versions of the reference comparator and have been compared
ComparedInDomain ==
    /\ Compared
    /\ InReferenceDomain(normalizeVersion(args.a))
    /\ InReferenceDomain(normalizeVersion(args.b))

\* C18: compareVersions returns what the reference comparator returns:
\* cores component by component as integers, a missing component being 0;
\* with equal cores a version without prerelease part above one with a
\* prerelease part; prerelease parts segment by segment, numeric segments
\* by value, a numeric segment below any other, other segments
\* lexicographically, the part that runs out first being lesser. The
\* result is -1, 0 or 1.
C18_MatchesReference ==
    ComparedInDomain
    => /\ result.ab \in {-1, 0, 1}
       /\ result.ab = Reference(normalizeVersion(args.a), normalizeVersion(args.b))

\* a prerelease segment that Number reads as a decimal literal with an
\* exponent
HasExponentSegment(norm) ==
    \E i \in 1..Len(Split(PreOf(norm), ".")) : ExponentMark(Split(PreOf(norm), ".")[i]) > 0

\* compareVersions returns what the reference comparator returns when no
\* prerelease segment is a literal with an exponent
C18_WithoutExponentSegments ==
    (/\ ComparedInDomain
     /\ ~HasExponentSegment(normalizeVersion(args.a))
     /\ ~HasExponentSegment(normalizeVersion(args.b)))
    => result.ab = Reference(normalizeVersion(args.a), normalizeVersion(args.b))


(***************************************************************************)
(* Properties of normalizeVersion and isPrerelease.                        *)
(***************************************************************************)
\* C19: normalizeVersion is idempotent: for every string s, with or
\* without a `<digits>.<digits>` substring, normalizing normalizeVersion(s)
\* returns normalizeVersion(s).
C19_NormalizeIdempotent ==
    (args.fn = "normalizeVersion" /\ result # <<>>) => result.twice = result.once

\* the character in lower case
ToLower(c) == IF c \in {Upper[i] : i \in 1..26}
              THEN Lower[Min({i \in 1..26 : Upper[i] = c})] ELSE c
LowerCase(str) == [i \in 1..Len(str) |-> ToLower(str[i])]

\* position i holds a hyphen that a marker follows as a whole token: the
\* marker ends the string or is followed by a character that is no letter
MarkerSegmentAt(norm, i, marker) ==
    /\ norm[i] = "-"
    /\ i + Len(marker) <= Len(norm)
    /\ LowerCase(Sub(norm, i + 1, i + Len(marker))) = marker
    /\ i + Len(marker) < Len(norm) => norm[i + Len(marker) + 1] \notin Letters

HasMarkerSegment(norm) ==
    \E i \in 1..Len(norm), marker \in Markers : MarkerSegmentAt(norm, i, marker)

\* C20: isPrerelease(v) is true exactly when the normalized version holds a
\* hyphen followed by one of alpha, beta, rc, next, canary, pre, in either
\* case, as a delimited segment; a marker that only begins a longer token
\* (-preview, -rcfoo) does not make the version a prerelease.
C20_PrereleaseIsMarkerSegment ==
    (args.fn = "isPrerelease" /\ result # <<>>)
    => (result.value <=> HasMarkerSegment(normalizeVersion(args.v)))

\* the normalized version has a hyphenated suffix
HasHyphenSuffix(norm) == Includes(norm, "-")

\* C21: isPrerelease(v) is true for every version whose normalized form has
\* a hyphenated suffix, whatever the suffix is (v0.108.0-b.79,
\* v1.2.0-anything), and false for a version without one.
C21_PrereleaseIsAnyHyphenSuffix ==
    (args.fn = "isPrerelease" /\ result # <<>>)
    => (result.value <=> HasHyphenSuffix(normalizeVersion(args.v)))


(***************************************************************************)
(* Properties of getRelevantReleases.                                      *)
(***************************************************************************)
\* getRelevantReleases has returned
Windowed == args.fn = "getRelevantReleases" /\ result # <<>>

\* the release is the one of the current version
IsCurrent(r, currentVersion) ==
    normalizeVersion(r.tag_name) = normalizeVersion(currentVersion)

\* the count of maxReleases has not ended the loop
CountNotReached(n, maxReleases) == maxReleases < 0 \/ n < maxReleases

\* C22: getRelevantReleases returns, in input order, the prefix of the input
\* list that ends just before the first release whose normalized tag is the
\* normalized current version: the returned releases are the first ones of
\* the input, none of them is the release of the current version, and, in a
\* call whose count of maxReleases has not ended the loop, the release that
\* follows the returned ones, when there is one, is the one of the current
\* version.
C22_WindowEndsBeforeCurrent ==
    Windowed
    => LET n == Len(result.value)
       IN  /\ n <= Len(args.releases)
           /\ \A i \in 1..n : result.value[i] = args.releases[i]
           /\ \A i \in 1..n : ~IsCurrent(result.value[i], args.currentVersion)
           /\ CountNotReached(n, args.maxReleases) /\ n < Len(args.releases)
                => IsCurrent(args.releases[n + 1], args.currentVersion)

\* for [v1.11.0, v1.10.2, v1.10.1, v1.10.0] and the current version v1.10.1
\* the call has returned [v1.11.0, v1.10.2]
C22_Witness ==
    /\ Windowed
    /\ args.releases = Pick([k \in 1..5 |-> Release(PublishedTags[k])], {1, 2, 3, 5})
    /\ args.currentVersion = PublishedTags[3]
    /\ result.value = <<Release(PublishedTags[1]), Release(PublishedTags[2])>>

\* C23: for every list of releases, every current version and every
\* maxReleases >= 0, 0 included, getRelevantReleases returns at most
\* maxReleases releases.
C23_WindowWithinCount ==
    (Windowed /\ args.maxReleases >= 0) => Len(result.value) <= args.maxReleases

\* C24: every release getRelevantReleases returns is strictly newer than
\* the current version, also when no release of the list has the tag of the
\* current version and when the current version is empty or no version.
C24_WindowStrictlyNewer ==
    Windowed
    => \A i \in 1..Len(result.value) :
          compareVersions(result.value[i].tag_name, args.currentVersion) = 1


(***************************************************************************)
(* Properties of applyVersionLag.                                          *)
(***************************************************************************)
\* applyVersionLag has returned
Lagged == args.fn = "applyVersionLag" /\ result # <<>>

\* the version prefix of the release, as the granularity of the call cuts it
KeyOf(r) == GroupKey(r.tag_name, args.granularity)

\* the number of groups that appear in the list before position i
GroupsBefore(releases, i) == Cardinality({KeyOf(releases[j]) : j \in 1..(i - 1)})

\* the releases of the list that have the key, in the order of the list
OfGroup(releases, key) == SelectSeq(releases, LAMBDA r : KeyOf(r) = key)

\* the list has a release whose group is the one of index lagCount
HasGroupAt(releases, lagCount) ==
    \E i \in 1..Len(releases) :
        /\ GroupsBefore(releases, i) = lagCount
        /\ \A j \in 1..(i - 1) : KeyOf(releases[j]) # KeyOf(releases[i])

\* C25: applyVersionLag groups the releases by the version prefix of the
\* granularity, orders the groups by first appearance and returns exactly
\* the releases of the group at index lagCount, in input order; the lag 0
\* returns the input, and so does a lag beyond the groups of the list.
C25_LagReturnsGroup ==
    Lagged
    => IF args.lagCount = 0 \/ ~HasGroupAt(args.releases, args.lagCount)
       THEN result.value = args.releases
       ELSE \E i \in 1..Len(args.releases) :
               /\ GroupsBefore(args.releases, i) = args.lagCount
               /\ \A j \in 1..(i - 1) : KeyOf(args.releases[j]) # KeyOf(args.releases[i])
               /\ result.value = OfGroup(args.releases, KeyOf(args.releases[i]))

\* for [v1.11.0, v1.10.2, v1.10.1, v1.10.0, v1.9.3, v1.9.2] the lag of one
\* minor version has returned the three releases of 1.10, v1.10.2 first
C25_Witness ==
    /\ Lagged
    /\ args.releases = ReleasesOf(Sub(LagTags, 2, 7))
    /\ args.lagCount = 1
    /\ args.granularity = "minor"
    /\ result.value = ReleasesOf(Sub(LagTags, 3, 5))


(***************************************************************************)
(* Properties of run(): the current version.                               *)
(***************************************************************************)
\* run() has decided for updates
HasUpdates == local.updatesNeeded # <<>>

\* the current version the file of the update holds now, read as run()
\* reads it
HeldNow(u) == CurrentVerRaw(disk[u.target.file].content, u.target.path, config.type)

\* the title of the pull request names, as the version updated from, the
\* normalized current version the release window was selected with
TitleFromCaptured ==
    local.prTitle.from = normalizeVersion(local.updatesNeeded[1].currentVerRaw)

\* the update about to be written replaces the version that was captured
\* for its target
WritesOverCaptured ==
    (pc = "mutate" /\ ~local.updatesNeeded[local.i].isManual
        /\ disk[local.updatesNeeded[local.i].target.file].exists)
    => HeldNow(local.updatesNeeded[local.i]) = local.updatesNeeded[local.i].currentVerRaw

\* C26: within one run the current version of a target is captured once,
\* and that one value is the one of the update decision, of the release
\* window, of the title of the pull request and the one the mutation
\* replaces: the file is not read again between the decision and the
\* write, also when two targets address the same file.
C26_CurrentVersionCapturedOnce ==
    HasUpdates => TitleFromCaptured /\ WritesOverCaptured


(***************************************************************************)
(* Properties of run(): the removal of a deleted application.              *)
(***************************************************************************)
\* the read of the first target fails: its file does not exist
FirstTargetMissing ==
    /\ config.type # "manual"
    /\ config.targets # <<>>
    /\ ~disk[config.targets[1].file].exists

\* the config file holds a line that sets `repo` to the repository
ConfigHoldsRepo ==
    \E i \in 1..Len(DocLines(disk[config.configFile].content)) :
        IsRepoEntry(DocLines(disk[config.configFile].content)[i], config.repo)

\* run() is past the call of removeApplicationFromConfig(..., false)
PastRemoval ==
    \/ pc \in {"rm_add", "rm_commit", "rm_push", "rm_pr"}
    \/ pc = "done" /\ failed = "" /\ ~config.dryRun

\* the commands of the removal path, in their order
RemovalCommands ==
    <<"config user.name", "config user.email", "checkout -B", "add", "commit -m",
      "push origin --force">>

\* the removal path has run to its end: the commands, on the branch
\* bot/remove-<name>, and the pull request of the cleanup
RemovalCompleted ==
    /\ [k \in 1..Len(execs) |-> execs[k].cmd] = RemovalCommands
    /\ execs[3].arg = RemoveBranchName(config.repo)
    /\ execs[4].arg = config.configFile
    /\ execs[6].arg = RemoveBranchName(config.repo)
    /\ Len(prs) = 1
    /\ prs[1].title.kind = "remove"
    /\ prs[1].head = RemoveBranchName(config.repo)

\* C27: when the file of the first target does not exist and the tracking
\* config exists, run() removes the block of the application from the
\* config (on the branch bot/remove-<name>, with commit, push and a cleanup
\* pull request when it is no dry run) and returns without fetching
\* releases or writing a target; when the config does not exist either,
\* the run fails with the error of the read.
C27_MissingTargetRemovesApplication ==
    FirstTargetMissing
    => IF disk[config.configFile].exists
       THEN /\ local.latestRelease.none /\ local.releases = <<>>
            /\ \A k \in 1..Len(writes) : writes[k] = config.configFile
            /\ PastRemoval => ~ConfigHoldsRepo
            /\ (pc = "done" /\ failed = "" /\ ~config.dryRun) => RemovalCompleted
            /\ config.dryRun => writes = <<>> /\ execs = <<>> /\ prs = <<>>
       ELSE /\ pc = "done" => failed = "File not found"
            /\ writes = <<>> /\ execs = <<>> /\ prs = <<>>


(***************************************************************************)
(* Properties of DockerHubService.fetchLatestTag.                          *)
(***************************************************************************)
\* the tags of the repository that are versions
VersionTagsOf(tags) ==
    {tags[i].tag_name : i \in {k \in 1..Len(tags) : Test(VersionTagRegex, tags[k].tag_name)}}

\* C28: fetchLatestTag returns the semantically highest version tag of the
\* repository, also when that tag is not on the first page of the tags
\* ordered by last_updated: a version updated longer ago, but higher, wins
\* over the most recently updated one.
C28_HighestVersionTag ==
    (args.fn = "fetchLatestTag" /\ result # <<>> /\ VersionTagsOf(args.tags) # {})
    => /\ result.value.tag_name \in VersionTagsOf(args.tags)
       /\ \A t \in VersionTagsOf(args.tags) :
              compareVersions(result.value.tag_name, t) >= 0


(***************************************************************************)
(* Properties of run(): the direction of an update.                        *)
(***************************************************************************)
\* run() has just written the update of index local.i
JustWritten == pc = "add"

\* C29: run() only moves a target forward: whenever it has rewritten a
\* target, or the version of the manual config, the version written is
\* strictly greater than the current version of that target; a latest
\* release that is older than the current version, such as a patch of an
\* older line published last, causes no rewrite.
C29_OnlyMovesForward ==
    JustWritten
    => compareVersions(local.updatesNeeded[local.i].targetVersion,
                       local.updatesNeeded[local.i].currentVerRaw) = 1


(***************************************************************************)
(* Properties of run(): the branch of the working tree.                    *)
(***************************************************************************)
\* the command of index k is the `git checkout -B <bot branch>` of the run,
\* and it has succeeded: run() went on after it
CheckedOutBranchAt(k) ==
    /\ execs[k].cmd = "checkout -B"
    /\ ~(k = Len(execs) /\ failed = "git failed")

\* the command of index k is `git checkout main`
CheckedOutMainAt(k) ==
    execs[k].cmd = "checkout" /\ execs[k].arg = <<"m", "a", "i", "n">>

\* C30: a run that is no dry run and has executed `git checkout -B <bot
\* branch>` executes `git checkout main` before it returns, on the update
\* path, on the removal path, and when a later step (the mutation of a
\* file, commit, push, the pull request) fails: when run() has returned,
\* the working tree is not left on the bot branch.
C30_ReturnsToMain ==
    pc = "done"
    => \A k \in 1..Len(execs) :
          CheckedOutBranchAt(k) => \E m \in (k + 1)..Len(execs) : CheckedOutMainAt(m)


=============================================================================
